---- MODULE Spec2Model ----
(***************************************************************************)
(* Model of the expense tracker API (src/server/app.js; src/server/index.js *)
(* carries the same handlers over a synchronous driver).                    *)
(*                                                                          *)
(* Representation                                                           *)
(*   - a JS Date holding a local midnight is its day number, the count of   *)
(*     days since 1970-01-01;                                               *)
(*   - a date string "YYYY-MM-DD" is the tuple <<YYYY, MM, DD>> of its      *)
(*     digit fields, so "2024-02-30" is <<2024, 2, 30>>; string order is    *)
(*     the lexicographic order of the tuples; "YYYY-MM" is <<YYYY, MM>>;    *)
(*   - a JS number (a count, a limit, an id, an amount) is fixed point with *)
(*     one binary fractional digit: the number v is the integer 2v, so 2.5  *)
(*     is 5 and 24 is 48; sums of amounts are exact in this representation; *)
(*   - a text (category, note) is a sequence of one-character strings;     *)
(*   - an Authorization header is the sequence of its parts (scheme word,   *)
(*     single spaces, credential); session times are days, like the clock.  *)
(*                                                                          *)
(* Specifications                                                           *)
(*   SpecPlan        the report planner over a long run of days;            *)
(*   Spec            the whole API, one request at a time;                  *)
(*   SpecWrites      POST and PUT over many dates, categories and notes;    *)
(*   SpecConcurrent  report handlers suspended at their await while rows    *)
(*                   are added and the store may fail;                      *)
(*   SpecAuth        protected routes behind requireAuth, sessions expire;  *)
(*   SpecLogout      login and logout over two accounts;                    *)
(*   SpecRegister    register handlers interleaving at their storage calls; *)
(*   SpecReadBack    POST, PUT and DELETE handlers interleaving likewise;   *)
(*   SpecChecks      POST and PUT with bodies failing several checks;       *)
(*   SpecBoot        start-up: dbReady, the middleware chain, the server    *)
(*                   (SpecBootFair adds the fairness of the event loop);    *)
(*   SpecList        GET /api/transactions over stores of 0 to 230 rows;    *)
(*   SpecClient      the browser client and its dashboard loads.            *)
(***************************************************************************)
EXTENDS Integers, Sequences, FiniteSets, TLC

\* txs:    the rows of table transactions
\* nextId: the next AUTOINCREMENT id of table transactions
\* now:    the day the server's clock shows (new Date())
\* resp:   the response being sent for the request just handled; Idle when
\*         the server is between requests
\* flights: the report requests being handled, each with the locals of its
\*         handler (bucket list, fetched rows) while it awaits the store
\* sessions: the rows of table sessions
\* header: the Authorization header of the request being answered
\* issued: the count of session rows ever inserted (tokens ever drawn)
\* users:  the rows of table users
\* regs:   the register handlers being run, each with its locals
\* writes: the POST and PUT transaction handlers being run, each with its
\*         locals while it awaits the store
\* boot:   the dbReady promise, the standalone server's process and the
\*         requests held by the middleware that awaits dbReady
\* client: the state of the browser client (src/src/App.jsx) with its
\*         dashboard loads under way
VARIABLES txs, nextId, now, resp, flights, sessions, header, issued, users,
          regs, writes, boot, client

vars == <<txs, nextId, now, resp, flights, sessions, header, issued, users,
          regs, writes, boot, client>>

(***************************************************************************)
(* Bounds of the model.                                                     *)
(***************************************************************************)
\* rows ever inserted (AUTOINCREMENT ids are 1..MaxRows)
MaxRows == 2
\* number of consecutive values of "today" the planner is explored over
PlanDays == 420
\* sessions ever created
MaxSessions == 2
\* times the clock is moved forward while sessions exist
MaxTicks == 2

(***************************************************************************)
(* ECMAScript Date arithmetic, as used through new Date(y, m, d),           *)
(* getFullYear/getMonth/getDate/getDay and setDate.                         *)
(***************************************************************************)
\* Math.trunc on a fixed-point number (ToIntegerOrInfinity of a Date argument)
TruncHalves(h) == IF h >= 0 THEN h \div 2 ELSE -((-h) \div 2)

\* day number of the civil date y-m-d, m in 1..12 (proleptic Gregorian)
DaysFromCivil(y, m, d) ==
  LET yy  == IF m <= 2 THEN y - 1 ELSE y
      era == yy \div 400
      yoe == yy - era * 400
      mp  == IF m > 2 THEN m - 3 ELSE m + 9
      doy == (153 * mp + 2) \div 5 + d - 1
      doe == yoe * 365 + yoe \div 4 - yoe \div 100 + doy
  IN  era * 146097 + doe - 719468

\* <<year, month 1..12, day>> of a day number
CivilFromDays(z) ==
  LET zz  == z + 719468
      era == zz \div 146097
      doe == zz - era * 146097
      yoe == (doe - doe \div 1460 + doe \div 36524 - doe \div 146096) \div 365
      doy == doe - (365 * yoe + yoe \div 4 - yoe \div 100)
      mp  == (5 * doy + 2) \div 153
      d   == doy - (153 * mp + 2) \div 5 + 1
      m   == IF mp < 10 THEN mp + 3 ELSE mp - 9
      y   == yoe + era * 400
  IN  << IF m <= 2 THEN y + 1 ELSE y, m, d >>

\* new Date(year, monthIndex, day): month and day overflow are carried
NewDate(year, monthIndex, day) ==
  LET y0 == IF year >= 0 /\ year <= 99 THEN 1900 + year ELSE year
      ym == y0 + monthIndex \div 12
      mn == monthIndex % 12
  IN  DaysFromCivil(ym, mn + 1, 1) + day - 1

getFullYear(date) == CivilFromDays(date)[1]

getMonth(date) == CivilFromDays(date)[2] - 1

getDate(date) == CivilFromDays(date)[3]

\* 0 = Sunday .. 6 = Saturday; 1970-01-01 was a Thursday
getDay(date) == (date + 4) % 7

\* date.setDate(day) with a fixed-point argument, truncated as MakeDay does
setDate(date, dayHalves) ==
  NewDate(getFullYear(date), getMonth(date), TruncHalves(dayHalves))

(***************************************************************************)
(* Date helpers of the server.                                              *)
(***************************************************************************)
parseISODate(value) == NewDate(value[1], value[2] - 1, value[3])

formatDate(date) == CivilFromDays(date)

startOfWeek(date) ==
  LET weekday == (getDay(date) + 6) % 7
  IN  setDate(date, 2 * (getDate(date) - weekday))

\* days is fixed point: addDays(d, 6) of the source is addDays(d, 12) here
addDays(date, daysHalves) == setDate(date, 2 * getDate(date) + daysHalves)

months ==
  << "Jan", "Feb", "Mar", "Apr", "May", "Jun",
     "Jul", "Aug", "Sep", "Oct", "Nov", "Dec" >>

\* order of two strings made of the same number of zero-padded fields
RECURSIVE StrLess(_, _)
StrLess(a, b) ==
  IF a = <<>> \/ b = <<>> THEN FALSE
  ELSE IF Head(a) # Head(b) THEN Head(a) < Head(b)
  ELSE StrLess(Tail(a), Tail(b))

StrLeq(a, b) == a = b \/ StrLess(a, b)

(***************************************************************************)
(* Request inputs.  A query parameter that is meant to be a number is       *)
(* absent, a non-numeric text, or a decimal literal (h = twice its value).  *)
(***************************************************************************)
QAbsent == [k |-> "absent", h |-> 0]

QText == [k |-> "text", h |-> 0]

QInf == [k |-> "inf", h |-> 0]

QNum(h) == [k |-> "num", h |-> h]

\* a query parameter that is meant to be a text: absent, given once (a
\* string) or given more than once (an array; s is the repeated value)
PAbsent == [k |-> "absent", s |-> ""]

PStr(s) == [k |-> "str", s |-> s]

PArray(s) == [k |-> "array", s |-> s]

\* a JS number: NaN, +Infinity or a finite fixed-point value
NaN == [k |-> "nan", h |-> 0]

Infinity == [k |-> "inf", h |-> 0]

Fin(h) == [k |-> "fin", h |-> h]

\* Number(value): NaN for undefined and for a non-numeric text
Number(q) ==
  IF q.k = "num" THEN Fin(q.h)
  ELSE IF q.k = "inf" THEN Infinity
  ELSE NaN

isFinite(x) == x.k = "fin"

\* the JS expression  x || dflt  on numbers: NaN and 0 are falsy
OrElse(x, dflt) == IF x.k = "nan" \/ (x.k = "fin" /\ x.h = 0) THEN dflt ELSE x

\* Math.max and Math.min on two numbers, neither of them NaN
MathMax(a, b) ==
  IF a.k = "inf" \/ b.k = "inf" THEN Infinity
  ELSE IF a.h >= b.h THEN a ELSE b

MathMin(a, b) ==
  IF a.k = "inf" THEN b
  ELSE IF b.k = "inf" THEN a
  ELSE IF a.h <= b.h THEN a ELSE b

ResolvePeriodFirstValue(p) == IF p.s = "week" THEN "week" ELSE "month"

\* const period = req.query.period === 'week' ? 'week' : 'month'
ResolvePeriod(p) == IF p = PStr("week") THEN "week" ELSE "month"

\* const count = Math.min(Math.max(Number(req.query.count) || 6, 2), 24)
ResolveCount(q) ==
  MathMin(MathMax(OrElse(Number(q), Fin(2 * 6)), Fin(2 * 2)), Fin(2 * 24)).h

\* number of iterations of  for (let i = 0; i < count; i += 1)
LoopCount(countH) == IF countH <= 0 THEN 0 ELSE (countH + 1) \div 2

(***************************************************************************)
(* GET /api/report: the bucket planner.                                     *)
(***************************************************************************)
Pad2Year(y) == y % 100

EmptyBucket(key, label) ==
  [key |-> key, label |-> label, income |-> 0, expense |-> 0]

\* const start = new Date(today.getFullYear(), today.getMonth() - (count - 1), 1)
MonthStart(today, countH) ==
  NewDate(getFullYear(today),
          TruncHalves(2 * getMonth(today) - (countH - 2)), 1)

\* rangeEnd = day 0 of the month after the month of today
MonthRangeEnd(today) ==
  LET lastBucket == NewDate(getFullYear(today), getMonth(today), 1)
  IN  NewDate(getFullYear(lastBucket), getMonth(lastBucket) + 1, 0)

MonthBucketNoCarry(start, i) ==
  LET current ==
        DaysFromCivil(getFullYear(start), ((getMonth(start) + i) % 12) + 1, 1)
  IN  EmptyBucket(<< getFullYear(current), getMonth(current) + 1 >>,
                  << months[getMonth(current) + 1],
                     Pad2Year(getFullYear(current)) >>)

MonthBucketNoYear(start, i) ==
  LET current == NewDate(getFullYear(start), getMonth(start) + i, 1)
  IN  EmptyBucket(<< getFullYear(current), getMonth(current) + 1 >>,
                  << months[getMonth(current) + 1] >>)

\* one iteration of the month loop, lines 475-482
MonthBucket(start, i) ==
  LET current == NewDate(getFullYear(start), getMonth(start) + i, 1)
  IN  EmptyBucket(<< getFullYear(current), getMonth(current) + 1 >>,
                  << months[getMonth(current) + 1],
                     Pad2Year(getFullYear(current)) >>)

WeekStart(today, countH) == addDays(startOfWeek(today), -(countH - 2) * 7)

WeekRangeEnd(today) == addDays(startOfWeek(today), 2 * 6)

WeekBucket(start, i) ==
  LET current == addDays(start, 2 * (i * 7))
  IN  EmptyBucket(formatDate(current),
                  << months[getMonth(current) + 1], getDate(current) >>)

\* the planned (still empty) buckets and the range, lines 464-500
Plan(period, countH, today) ==
  IF period = "month"
  THEN LET start == MonthStart(today, countH)
       IN  [ rangeStart |-> start,
             rangeEnd   |-> MonthRangeEnd(today),
             buckets    |-> [ i \in 1..LoopCount(countH) |->
                                MonthBucket(start, i - 1) ] ]
  ELSE LET start == WeekStart(today, countH)
       IN  [ rangeStart |-> start,
             rangeEnd   |-> WeekRangeEnd(today),
             buckets    |-> [ i \in 1..LoopCount(countH) |->
                                WeekBucket(start, i - 1) ] ]

(***************************************************************************)
(* GET /api/report: fetch and fold.                                         *)
(***************************************************************************)
FetchRangeAllUsers(store, userId, start, end) ==
  { r \in store : StrLeq(start, r.date) /\ StrLeq(r.date, end) }

\* SELECT date, type, amount FROM transactions
\*  WHERE user_id = ? AND date >= ? AND date <= ?
FetchRange(store, userId, start, end) ==
  { r \in store :
      r.user_id = userId /\ StrLeq(start, r.date) /\ StrLeq(r.date, end) }

\* the orders in which the store may return a set of rows
Orderings(S) ==
  { s \in [1..Cardinality(S) -> S] :
      \A i, j \in 1..Cardinality(S) : i # j => s[i] # s[j] }

\* the bucket key recomputed for a fetched row, lines 514-521
RowKey(period, row) ==
  IF period = "month"
  THEN SubSeq(row.date, 1, 2)
  ELSE formatDate(startOfWeek(parseISODate(row.date)))

\* bucketMap.get(key): a Map built from [key, bucket] pairs keeps the last
\* bucket of a key; 0 stands for undefined
BucketMapGet(buckets, key) ==
  LET hits == { i \in 1..Len(buckets) : buckets[i].key = key }
  IN  IF hits = {} THEN 0 ELSE CHOOSE i \in hits : \A j \in hits : j <= i

FoldRowLastWins(buckets, period, row) ==
  LET i == BucketMapGet(buckets, RowKey(period, row))
  IN  IF i = 0 THEN buckets
      ELSE IF row.type = "income"
      THEN [buckets EXCEPT ![i].income = row.amount]
      ELSE [buckets EXCEPT ![i].expense = row.amount]

FoldRowFirstWins(buckets, period, row) ==
  LET i == BucketMapGet(buckets, RowKey(period, row))
  IN  IF i = 0 THEN buckets
      ELSE IF row.type = "income"
      THEN [buckets EXCEPT ![i].income = IF @ = 0 THEN row.amount ELSE @]
      ELSE [buckets EXCEPT ![i].expense = IF @ = 0 THEN row.amount ELSE @]

FoldRowIntoLast(buckets, period, row) ==
  LET hit == BucketMapGet(buckets, RowKey(period, row))
      i   == IF hit = 0 THEN Len(buckets) ELSE hit
  IN  IF row.type = "income"
      THEN [buckets EXCEPT ![i].income = @ + row.amount]
      ELSE [buckets EXCEPT ![i].expense = @ + row.amount]

\* one step of rowsResult.rows.forEach, lines 513-533
FoldRow(buckets, period, row) ==
  LET i == BucketMapGet(buckets, RowKey(period, row))
  IN  IF i = 0 THEN buckets
      ELSE IF row.type = "income"
      THEN [buckets EXCEPT ![i].income = @ + row.amount]
      ELSE [buckets EXCEPT ![i].expense = @ + row.amount]

RECURSIVE Fold(_, _, _)
Fold(buckets, period, rows) ==
  IF rows = <<>> THEN buckets
  ELSE Fold(FoldRow(buckets, period, Head(rows)), period, Tail(rows))

\* the JSON body of a successful report
ReportBody(period, countH, plan, rows) ==
  [ period  |-> period,
    count   |-> countH,
    start   |-> formatDate(plan.rangeStart),
    end     |-> formatDate(plan.rangeEnd),
    buckets |-> Fold(plan.buckets, period, rows) ]

NoQuery == [user_id |-> 0, start |-> <<>>, end |-> <<>>]

Idle ==
  [ op |-> "idle", user |-> 0, req |-> <<>>, status |-> 0,
    sql |-> NoQuery, body |-> <<>> ]

\* GET /api/report for the authenticated user u
Report(u, periodParam, countParam) ==
  LET today  == now
      period == ResolvePeriod(periodParam)
      countH == ResolveCount(countParam)
      plan   == Plan(period, countH, today)
      start  == formatDate(plan.rangeStart)
      end    == formatDate(plan.rangeEnd)
  IN  /\ resp = Idle
      /\ \E rows \in Orderings(FetchRange(txs, u, start, end)) :
           resp' = [ op     |-> "report",
                     user   |-> u,
                     req    |-> [ period |-> periodParam,
                                  count  |-> countParam,
                                  today  |-> today ],
                     status |-> 200,
                     sql    |-> [user_id |-> u, start |-> start, end |-> end],
                     body   |-> ReportBody(period, countH, plan, rows) ]
      /\ UNCHANGED <<txs, nextId, now>>

\* the response has been written to the socket; the server is idle again
Deliver ==
  /\ resp # Idle
  /\ resp' = Idle
  /\ UNCHANGED <<txs, nextId, now>>

(***************************************************************************)
(* Texts and request bodies.                                                *)
(***************************************************************************)
\* a JSON value meant to be a text: a string, or anything else (absent, null,
\* a number)
Str(s) == [k |-> "str", s |-> s]

NotStr == [k |-> "other", s |-> <<>>]

\* the SQL NULL of column note
Null == [k |-> "null", s |-> <<>>]

RECURSIVE trimStart(_)
trimStart(s) ==
  IF s # <<>> /\ Head(s) = " " THEN trimStart(Tail(s)) ELSE s

RECURSIVE trimEnd(_)
trimEnd(s) ==
  IF s # <<>> /\ s[Len(s)] = " " THEN trimEnd(SubSeq(s, 1, Len(s) - 1)) ELSE s

\* String.prototype.trim
trim(s) == trimEnd(trimStart(s))

allowedTypes == {"income", "expense"}

\* typeof value === 'string' && /^\d{4}-\d{2}-\d{2}$/.test(value)
isValidDate(value) ==
  /\ Len(value) = 3
  /\ value[1] \in 0..9999
  /\ value[2] \in 0..99
  /\ value[3] \in 0..99

isValidAmountNonNegative(value) ==
  LET amount == Number(value)
  IN  isFinite(amount) /\ amount.h >= 0

\* Number.isFinite(Number(value)) && Number(value) > 0
isValidAmount(value) ==
  LET amount == Number(value)
  IN  isFinite(amount) /\ amount.h > 0

Body(type, amount, category, date, note) ==
  [ type |-> type, amount |-> amount, category |-> category,
    date |-> date, note |-> note ]

BodyErrorDateFirst(b) ==
  IF ~isValidDate(b.date) THEN "Date must be YYYY-MM-DD."
  ELSE IF b.type \notin allowedTypes THEN "Type must be income or expense."
  ELSE IF ~isValidAmount(b.amount) THEN "Amount must be a positive number."
  ELSE IF b.category.k # "str" \/ b.category.s = <<>>
    THEN "Category is required."
  ELSE ""

\* the checks shared by POST and PUT, in source order; "" when all pass
BodyError(b) ==
  IF b.type \notin allowedTypes THEN "Type must be income or expense."
  ELSE IF ~isValidAmount(b.amount) THEN "Amount must be a positive number."
  ELSE IF b.category.k # "str" \/ b.category.s = <<>>
    THEN "Category is required."
  ELSE IF ~isValidDate(b.date) THEN "Date must be YYYY-MM-DD."
  ELSE ""

\* Number.isInteger(id) && id > 0 on id = Number(req.params.id)
IsValidId(q) ==
  LET id == Number(q)
  IN  isFinite(id) /\ id.h % 2 = 0 /\ id.h > 0

cleanNote(note) ==
  LET text == IF note.k = "str" THEN trim(note.s) ELSE <<>>
  IN  IF text = <<>> THEN Null ELSE Str(text)

\* the column values an INSERT or UPDATE writes for a validated body
RowValues(b) ==
  [ type     |-> b.type,
    amount   |-> Number(b.amount).h,
    category |-> trim(b.category.s),
    date     |-> b.date,
    note     |-> cleanNote(b.note) ]

NewRow(id, userId, b) ==
  [ id |-> id, user_id |-> userId ] @@ RowValues(b)

\* SELECT id, type, amount, category, date, note
Columns(r) ==
  [ id |-> r.id, type |-> r.type, amount |-> r.amount,
    category |-> r.category, date |-> r.date, note |-> r.note ]

Error(op, u, req, status, message) ==
  [ op |-> op, user |-> u, req |-> req, status |-> status,
    sql |-> NoQuery, body |-> [error |-> message] ]

Ok(op, u, req, status, body) ==
  [ op |-> op, user |-> u, req |-> req, status |-> status,
    sql |-> NoQuery, body |-> body ]

(***************************************************************************)
(* POST /api/transactions, PUT and DELETE /api/transactions/:id             *)
(***************************************************************************)
PostTransaction(u, b) ==
  /\ resp = Idle
  /\ IF BodyError(b) # ""
     THEN /\ resp' = Error("post", u, [body |-> b], 400, BodyError(b))
          /\ UNCHANGED <<txs, nextId, now>>
     ELSE /\ nextId <= MaxRows
          /\ txs' = txs \cup { NewRow(nextId, u, b) }
          /\ nextId' = nextId + 1
          /\ resp' = Ok("post", u, [body |-> b], 201,
                        [transaction |-> Columns(NewRow(nextId, u, b))])
          /\ UNCHANGED now

TargetsAnyOwner(store, id, userId) == { r \in store : r.id = id }

\* the rows matched by  WHERE id = ? AND user_id = ?
Targets(store, id, userId) ==
  { r \in store : r.id = id /\ r.user_id = userId }

PutTransaction(u, idParam, b) ==
  LET req == [id |-> idParam, body |-> b]
      id  == Number(idParam).h \div 2
      hit == Targets(txs, id, u)
  IN  /\ resp = Idle
      /\ IF ~IsValidId(idParam)
         THEN /\ resp' = Error("put", u, req, 400, "Invalid transaction id.")
              /\ UNCHANGED <<txs, nextId, now>>
         ELSE IF BodyError(b) # ""
         THEN /\ resp' = Error("put", u, req, 400, BodyError(b))
              /\ UNCHANGED <<txs, nextId, now>>
         ELSE IF hit = {}
         THEN /\ resp' = Error("put", u, req, 404, "Transaction not found.")
              /\ UNCHANGED <<txs, nextId, now>>
         ELSE /\ txs' = (txs \ hit) \cup
                          { NewRow(r.id, r.user_id, b) : r \in hit }
              /\ resp' = Ok("put", u, req, 200,
                            [transaction |-> Columns(NewRow(id, u, b))])
              /\ UNCHANGED <<nextId, now>>

DeleteTransaction(u, idParam) ==
  LET req == [id |-> idParam]
      id  == Number(idParam).h \div 2
      hit == Targets(txs, id, u)
  IN  /\ resp = Idle
      /\ IF ~IsValidId(idParam)
         THEN /\ resp' = Error("delete", u, req, 400, "Invalid transaction id.")
              /\ UNCHANGED <<txs, nextId, now>>
         ELSE IF hit = {}
         THEN /\ resp' = Error("delete", u, req, 404, "Transaction not found.")
              /\ UNCHANGED <<txs, nextId, now>>
         ELSE /\ txs' = txs \ hit
              /\ resp' = Ok("delete", u, req, 204, <<>>)
              /\ UNCHANGED <<nextId, now>>

(***************************************************************************)
(* GET /api/transactions, /api/categories, /api/summary                     *)
(***************************************************************************)
buildRangeFilterExclusive(store, start, end, userId) ==
  { r \in store :
      /\ r.user_id = userId
      /\ (start # <<>> /\ isValidDate(start)) => StrLess(start, r.date)
      /\ (end # <<>> /\ isValidDate(end)) => StrLess(r.date, end) }

\* the rows selected by the WHERE clause buildRangeFilter builds; an absent
\* query parameter is the empty tuple
buildRangeFilter(store, start, end, userId) ==
  { r \in store :
      /\ r.user_id = userId
      /\ (start # <<>> /\ isValidDate(start)) => StrLeq(start, r.date)
      /\ (end # <<>> /\ isValidDate(end)) => StrLeq(r.date, end) }

\* ORDER BY date DESC, id DESC
ComesBefore(a, b) ==
  StrLess(b.date, a.date) \/ (a.date = b.date /\ a.id > b.id)

\* the rows in that order: the row at position i is the one that i - 1 rows
\* come before
OrderByDateDesc(S) ==
  LET ahead == { << Cardinality({ t \in S : ComesBefore(t, r) }), r >> :
                   r \in S }
  IN  [i \in 1..Cardinality(S) |-> (CHOOSE p \in ahead : p[1] = i - 1)[2]]

\* const limit = Math.min(Number(req.query.limit) || 50, 200)
ResolveLimit(q) == MathMin(OrElse(Number(q), Fin(2 * 50)), Fin(2 * 200))

\* LIMIT ?: a negative limit is no limit
ApplyLimit(rows, limitH) ==
  IF limitH < 0 \/ limitH \div 2 >= Len(rows) THEN rows
  ELSE SubSeq(rows, 1, limitH \div 2)

ListBody(store, u, start, end, limitH) ==
  LET rows == OrderByDateDesc(buildRangeFilter(store, start, end, u))
      page == ApplyLimit(rows, limitH)
  IN  [ transactions |-> [i \in 1..Len(page) |-> Columns(page[i])] ]

ListTransactions(u, start, end, limitParam) ==
  LET req   == [start |-> start, end |-> end, limit |-> limitParam]
      limit == ResolveLimit(limitParam)
  IN  /\ resp = Idle
      /\ resp' =
           \* SQLite rejects a LIMIT that is no integer (datatype mismatch)
           IF limit.h % 2 # 0
           THEN Error("list", u, req, 500, "Unable to fetch transactions.")
           ELSE Ok("list", u, req, 200, ListBody(txs, u, start, end, limit.h))
      /\ UNCHANGED <<txs, nextId, now>>

\* code points of the characters the model's texts are made of
CharCode(c) ==
  CASE c = " " -> 32
    [] c = "f" -> 102
    [] c = "g" -> 103
    [] c = "n" -> 110

RECURSIVE TextLess(_, _)
TextLess(a, b) ==
  IF b = <<>> THEN FALSE
  ELSE IF a = <<>> THEN TRUE
  ELSE IF Head(a) # Head(b) THEN CharCode(Head(a)) < CharCode(Head(b))
  ELSE TextLess(Tail(a), Tail(b))

\* SELECT DISTINCT category ... WHERE user_id = ? ORDER BY category
CategoriesBody(store, u) ==
  LET cats == { r.category : r \in { x \in store : x.user_id = u } }
  IN  [ categories |->
          CHOOSE s \in Orderings(cats) :
            \A i, j \in 1..Len(s) : i < j => TextLess(s[i], s[j]) ]

Categories(u) ==
  /\ resp = Idle
  /\ resp' = Ok("categories", u, <<>>, 200, CategoriesBody(txs, u))
  /\ UNCHANGED <<txs, nextId, now>>

RECURSIVE SumAmounts(_)
SumAmounts(S) ==
  IF S = {} THEN 0
  ELSE LET r == CHOOSE x \in S : TRUE
       IN  r.amount + SumAmounts(S \ {r})

\* COALESCE(SUM(CASE WHEN type = ... THEN amount END), 0) and the balance
SummaryBody(store, u, start, end) ==
  LET rows    == buildRangeFilter(store, start, end, u)
      income  == SumAmounts({ r \in rows : r.type = "income" })
      expense == SumAmounts({ r \in rows : r.type = "expense" })
  IN  [ income |-> income, expense |-> expense, balance |-> income - expense ]

Summary(u, start, end) ==
  /\ resp = Idle
  /\ resp' = Ok("summary", u, [start |-> start, end |-> end], 200,
                SummaryBody(txs, u, start, end))
  /\ UNCHANGED <<txs, nextId, now>>

(***************************************************************************)
(* GET /api/report as the event loop runs it: the handler plans its buckets *)
(* and awaits the store; the store answers or fails; the handler resumes.   *)
(***************************************************************************)
\* the handlers that may be suspended at the same time
Flights == {1, 2}

IdleFlight ==
  [ pc |-> "idle", user |-> 0, req |-> <<>>, period |-> "", count |-> 0,
    rangeStart |-> 0, rangeEnd |-> 0, buckets |-> <<>>,
    fetch |-> "none", rows |-> <<>>, status |-> 0, body |-> <<>> ]

NoFlights == [i \in Flights |-> IdleFlight]

\* lines 458-509: resolve, plan, send the query and await its result
ReportBegin(i, u, periodParam, countParam) ==
  LET today  == now
      period == ResolvePeriod(periodParam)
      countH == ResolveCount(countParam)
      plan   == Plan(period, countH, today)
  IN  /\ flights[i].pc = "idle"
      /\ flights' =
           [flights EXCEPT ![i] =
              [ pc         |-> "awaiting",
                user       |-> u,
                req        |-> [ period |-> periodParam,
                                 count  |-> countParam,
                                 today  |-> today ],
                period     |-> period,
                count      |-> countH,
                rangeStart |-> plan.rangeStart,
                rangeEnd   |-> plan.rangeEnd,
                buckets    |-> plan.buckets,
                fetch      |-> "pending",
                rows       |-> <<>>,
                status     |-> 0,
                body       |-> <<>> ]]
      /\ UNCHANGED <<txs, nextId, now, resp>>

\* the store runs the SELECT of flight i on the rows it holds now
DbExecute(i) ==
  LET f == flights[i]
  IN  /\ f.pc = "awaiting"
      /\ \E rows \in Orderings(FetchRange(txs, f.user,
                                           formatDate(f.rangeStart),
                                           formatDate(f.rangeEnd))) :
           flights' = [flights EXCEPT ![i].pc = "fetched",
                                      ![i].fetch = "rows",
                                      ![i].rows = rows]
      /\ UNCHANGED <<txs, nextId, now, resp>>

\* the store is unavailable: db.execute rejects
DbReject(i) ==
  /\ flights[i].pc = "awaiting"
  /\ flights' = [flights EXCEPT ![i].pc = "rejected", ![i].fetch = "error"]
  /\ UNCHANGED <<txs, nextId, now, resp>>

SharedBuckets(fl, i) == fl[1].buckets

\* let buckets = []: the bucket list is a local of the handler's call
OwnBuckets(fl, i) == fl[i].buckets

\* lines 511-541: fold the fetched rows and answer
ReportResume(i) ==
  LET f      == flights[i]
      folded == Fold(OwnBuckets(flights, i), f.period, f.rows)
  IN  /\ f.pc = "fetched"
      /\ flights' =
           [flights EXCEPT ![i].pc = "done",
                           ![i].buckets = folded,
                           ![i].status = 200,
                           ![i].body =
                             [ period  |-> f.period,
                               count   |-> f.count,
                               start   |-> formatDate(f.rangeStart),
                               end     |-> formatDate(f.rangeEnd),
                               buckets |-> folded ]]
      /\ UNCHANGED <<txs, nextId, now, resp>>

CatchResponsePlanned(f) ==
  [ status |-> 200,
    body   |-> [ period  |-> f.period,
                 count   |-> f.count,
                 start   |-> formatDate(f.rangeStart),
                 end     |-> formatDate(f.rangeEnd),
                 buckets |-> f.buckets ] ]

\* lines 542-545: the catch block
CatchResponse(f) ==
  [ status |-> 500, body |-> [error |-> "Unable to generate report."] ]

ReportCatch(i) ==
  LET f == flights[i]
  IN  /\ f.pc = "rejected"
      /\ flights' = [flights EXCEPT ![i].pc = "done",
                                    ![i].status = CatchResponse(f).status,
                                    ![i].body = CatchResponse(f).body]
      /\ UNCHANGED <<txs, nextId, now, resp>>

\* the response has been sent and the call's locals are dropped
ReportEnd(i) ==
  /\ flights[i].pc = "done"
  /\ flights' = [flights EXCEPT ![i] = IdleFlight]
  /\ UNCHANGED <<txs, nextId, now, resp>>

(***************************************************************************)
(* Sessions and the requireAuth middleware.  A header is the sequence of    *)
(* its parts: the scheme word, single spaces, the credential; the absent    *)
(* header is the empty sequence, as  req.headers.authorization || ''  makes  *)
(* it.  Session times are days, like the clock.                             *)
(***************************************************************************)
\* SESSION_TTL_MS, in days
SessionTtlDays == 14

\* the tokens crypto.randomBytes can give, as texts of one part; the last
\* one is never given
TokenNames == <<"t1", "t2", "t3", "t4", "t5">>

TokenTexts == [k \in 1..(MaxSessions + 1) |-> << TokenNames[k] >>]

\* the session row createSession inserts: crypto.randomBytes(32) gives a
\* token no earlier call gave, here the next of TokenTexts
NewSession(userId) ==
  [ token      |-> TokenTexts[issued + 1],
    user_id    |-> userId,
    expires_at |-> now + SessionTtlDays ]

\* createSession(userId)
createSession(userId) ==
  /\ issued < MaxSessions
  /\ sessions' = sessions \cup { NewSession(userId) }
  /\ issued' = issued + 1
  /\ UNCHANGED <<txs, nextId, now, resp, flights, header>>

getTokenAnyScheme(h) ==
  IF Len(h) >= 2 /\ h[2] = " " THEN trim(SubSeq(h, 3, Len(h))) ELSE <<>>

\* the token of a header; the empty text stands for null and for '', which
\* requireAuth treats alike (!token)
getToken(h) ==
  IF Len(h) >= 2 /\ h[1] = "Bearer" /\ h[2] = " "
  THEN trim(SubSeq(h, 3, Len(h)))
  ELSE <<>>

requireAuthExpiresLate(store, h, clock) ==
  LET token == getToken(h)
      hit   == { s \in store : s.token = token }
  IN  IF token = <<>> \/ hit = {}
      THEN [ status |-> 401, error |-> "Unauthorized.", user |-> 0,
             drop |-> {} ]
      ELSE LET session == CHOOSE s \in hit : TRUE
           IN  IF session.expires_at < clock
               THEN [ status |-> 401, error |-> "Session expired.",
                      user |-> 0, drop |-> hit ]
               ELSE [ status |-> 0, error |-> "", user |-> session.user_id,
                      drop |-> {} ]

\* the outcome of requireAuth: status 0 stands for next() with req.user set;
\* drop holds the session rows it deletes
requireAuth(store, h, clock) ==
  LET token == getToken(h)
      hit   == { s \in store : s.token = token }
  IN  IF token = <<>> \/ hit = {}
      THEN [ status |-> 401, error |-> "Unauthorized.", user |-> 0,
             drop |-> {} ]
      ELSE LET session == CHOOSE s \in hit : TRUE
           IN  IF session.expires_at <= clock
               THEN [ status |-> 401, error |-> "Session expired.",
                      user |-> 0, drop |-> hit ]
               ELSE [ status |-> 0, error |-> "", user |-> session.user_id,
                      drop |-> {} ]

\* req.user.id as requireAuth sets it for a request with this header
ReqUser(h) == requireAuth(sessions, h, now).user

\* requireAuth calls next(): the handler of the route runs for ReqUser(h)
Admit(h) ==
  /\ requireAuth(sessions, h, now).status = 0
  /\ header' = h
  /\ UNCHANGED <<flights, sessions, issued>>

\* requireAuth answers the request itself
Refuse(h) ==
  LET auth == requireAuth(sessions, h, now)
  IN  /\ auth.status # 0
      /\ resp = Idle
      /\ resp' = Error("auth", 0, <<>>, auth.status, auth.error)
      /\ sessions' = sessions \ auth.drop
      /\ header' = h
      /\ UNCHANGED <<txs, nextId, now, flights, issued>>

\* the response of a protected route has been written to the socket
DeliverProtected ==
  /\ Deliver
  /\ header' = <<>>
  /\ UNCHANGED <<flights, sessions, issued>>

\* requests that have passed requireAuth as the user the handler is given
NoAuth == UNCHANGED <<sessions, header, issued>>

(***************************************************************************)
(* The parts of the system that the specifications further below set in     *)
(* motion, at rest: no registration and no write handler is under way, the  *)
(* database is initialized and the server listens, no browser is open.      *)
(***************************************************************************)
Regs == {1, 2}

\* the locals of a register handler: the request body, cleanUsername, the
\* rows of its SELECT, the id of the user it inserted, and its response
IdleReg ==
  [ pc |-> "idle", req |-> <<>>, cleanUsername |-> <<>>, existing |-> {},
    userId |-> 0, status |-> 0, body |-> <<>> ]

NoRegs == [i \in Regs |-> IdleReg]

Writes == {1, 2}

\* the locals of a POST, PUT or DELETE transaction handler: the route, the
\* authenticated user, the request, the id its statements name, and its
\* response
IdleWrite ==
  [ pc |-> "idle", op |-> "", user |-> 0, req |-> <<>>, id |-> 0,
    status |-> 0, body |-> <<>> ]

NoWrites == [i \in Writes |-> IdleWrite]

\* the requests the middleware chain is working on
Reqs == {1, 2}

IdleReq == [ pc |-> "idle", kind |-> "", status |-> 0, body |-> <<>> ]

\* initDb() has completed and the standalone server listens
Booted ==
  [ mode |-> "standalone", dbReady |-> "resolved", server |-> "listening",
    reqs |-> [i \in Reqs |-> IdleReq] ]

\* the dashboard loads a browser has under way
Loads == {1, 2}

IdleLoad == [ pc |-> "idle", nextPeriod |-> "", reportData |-> "" ]

\* no browser is open: the state of App before it is mounted with a token
NoClient ==
  [ signedIn |-> FALSE, period |-> "month",
    report |-> [ period |-> "month", loaded |-> FALSE ],
    isLoading |-> TRUE, loads |-> [i \in Loads |-> IdleLoad] ]

Elsewhere == UNCHANGED <<users, regs, writes, boot, client>>

(***************************************************************************)
(* The planner explored over a long run of days with an empty store.        *)
(***************************************************************************)
Users == {1, 2}

PlanFirstDay == DaysFromCivil(2023, 2, 20)

PlanTodays == { PlanFirstDay + k : k \in 0..(PlanDays - 1) }

InitPlan ==
  /\ txs = {}
  /\ nextId = 1
  /\ now \in PlanTodays
  /\ resp = Idle
  /\ flights = NoFlights
  /\ sessions = {}
  /\ header = <<>>
  /\ issued = 0
  /\ users = {}
  /\ regs = NoRegs
  /\ writes = NoWrites
  /\ boot = Booted
  /\ client = NoClient

PlanPeriods == {PStr("week"), PStr("month"), PStr("quarter")}

\* further values of the period parameter, sent with fewer counts
OtherPeriods == {PStr("Week"), PStr(""), PAbsent, PArray("week")}

PlanCounts ==
  {QAbsent, QText, QInf} \cup
  { QNum(h) : h \in {-2, 0, 1, 2, 3, 4, 5, 6, 7, 26, 47, 48, 49, 50, 200} }

PlanRequests ==
  (PlanPeriods \X PlanCounts) \cup (OtherPeriods \X {QAbsent, QNum(5)})

PlanReport == \E q \in PlanRequests : Report(1, q[1], q[2])

\* one request at a time: no handler is ever suspended
NoFlight == UNCHANGED flights

Plain == NoFlight /\ NoAuth /\ Elsewhere

NextPlan ==
  \/ PlanReport /\ Plain
  \/ Deliver /\ Plain

SpecPlan == InitPlan /\ [][NextPlan]_vars

(***************************************************************************)
(* Properties of the planner (checked under SpecPlan).                      *)
(***************************************************************************)
IsReport == resp.op = "report" /\ resp.status = 200

Keys == [i \in 1..Len(resp.body.buckets) |-> resp.body.buckets[i].key]

\* the calendar month k months before the month <<y, m>>
MonthsBefore(ym, k) ==
  LET idx == ym[1] * 12 + (ym[2] - 1) - k
  IN  << idx \div 12, (idx % 12) + 1 >>

\* the Monday on or before a day (day 4, 1970-01-05, was a Monday)
MondayOnOrBefore(day) == day - ((day + 3) % 7)

IsMonday(day) == (day + 3) % 7 = 0

\* today as a date string
TodayStr == CivilFromDays(now)

\* C1: the resolved count is 6 when the count parameter is absent or
\* non-numeric, 2 when the supplied number is below 2 (1, 0 and negative
\* values alike), 24 when it is above 24, and the supplied value itself when
\* it is an integer in [2,24].
C1_ResolvedCount ==
  IsReport =>
    LET q == resp.req.count
        c == resp.body.count
    IN  /\ q.k \in {"absent", "text"} => c = 2 * 6
        /\ (q.k = "num" /\ q.h < 2 * 2) => c = 2 * 2
        /\ (q.k = "inf" \/ (q.k = "num" /\ q.h > 2 * 24)) => c = 2 * 24
        /\ (q.k = "num" /\ q.h % 2 = 0 /\ q.h >= 2 * 2 /\ q.h <= 2 * 24)
             => c = q.h

\* C2: in every successful report the length of the buckets array equals the
\* count field of the same response, fractional count parameters included.
C2_LengthEqualsCount ==
  IsReport => 2 * Len(resp.body.buckets) = resp.body.count

\* C3: the keys of the planned buckets are pairwise distinct and strictly
\* increasing in chronological order along the returned sequence.
C3_KeysIncreasing ==
  IsReport =>
    /\ \A i, j \in 1..Len(Keys) : i < j => StrLess(Keys[i], Keys[j])
    /\ \A i, j \in 1..Len(Keys) : i # j => Keys[i] # Keys[j]

\* C3 witness: a month report and a week report whose buckets cross a year
\* boundary.
C3_Witness ==
  /\ IsReport
  /\ resp.body.count = 2 * 24
  /\ Keys[1][1] < Keys[Len(Keys)][1]
  /\ resp.body.period = "week"

\* C4: in month mode the last bucket is the calendar month containing today
\* and bucket i (oldest first) is the month exactly (n - i) months before it,
\* n being the number of buckets.
C4_MonthsConsecutive ==
  (IsReport /\ resp.body.period = "month") =>
    LET n == Len(Keys)
    IN  \A i \in 1..n :
          Keys[i] = MonthsBefore(SubSeq(TodayStr, 1, 2), n - i)

\* C5: in week mode the last bucket's key is the Monday on or before today,
\* each earlier key is the Monday 7 days before its successor's, and every
\* key is a Monday.
C5_WeeksConsecutive ==
  (IsReport /\ resp.body.period = "week") =>
    LET n == Len(Keys)
    IN  /\ Keys[n] = CivilFromDays(MondayOnOrBefore(now))
        /\ \A i \in 1..n :
             /\ IsMonday(parseISODate(Keys[i]))
             /\ i < n =>
                  parseISODate(Keys[i]) + 7 = parseISODate(Keys[i + 1])

\* the last calendar day of the month <<y, m>>
LastDayOfMonth(ym) ==
  CHOOSE d \in 28..31 :
    /\ CivilFromDays(DaysFromCivil(ym[1], ym[2], d)) = << ym[1], ym[2], d >>
    /\ CivilFromDays(DaysFromCivil(ym[1], ym[2], d) + 1)[2] # ym[2]

\* C7: start and end exactly bound the planned buckets (month: day 01 of the
\* oldest bucket's month and the last calendar day of the newest bucket's
\* month; week: the oldest bucket's Monday and the newest bucket's Monday
\* plus 6 days, a Sunday), and the same two dates bound the storage query.
C7_RangeBoundsBuckets ==
  IsReport =>
    LET n == Len(Keys)
        b == resp.body
    IN  /\ b.period = "month" =>
             /\ b.start = << Keys[1][1], Keys[1][2], 1 >>
             /\ b.end = << Keys[n][1], Keys[n][2], LastDayOfMonth(Keys[n]) >>
        /\ b.period = "week" =>
             /\ b.start = Keys[1]
             /\ IsMonday(parseISODate(b.start))
             /\ parseISODate(b.end) = parseISODate(Keys[n]) + 6
             /\ getDay(parseISODate(b.end)) = 0
        /\ resp.sql.start = b.start
        /\ resp.sql.end = b.end

(***************************************************************************)
(* The whole API, one request at a time, over a small store.                *)
(***************************************************************************)
Today == DaysFromCivil(2024, 3, 15)

\* a day of the current week of Today, a day of the month before, a
\* well-formed date that is no calendar day, and a malformed date
DateInWeek == <<2024, 3, 12>>

DateInFebruary == <<2024, 2, 10>>

DateNoSuchDay == <<2024, 2, 30>>

DateMalformed == <<2024, 3>>

Food == Str(<<"f">>)

PostBodies ==
  { Body("income", QNum(2), Food, DateInWeek, NotStr),
    Body("expense", QNum(2), Food, DateInFebruary, NotStr),
    Body("expense", QNum(2), Str(<<" ", "g", " ">>), DateInWeek, NotStr),
    Body("expense", QNum(2), Food, DateNoSuchDay, NotStr),
    Body("income", QNum(2), Food, DateInFebruary, Str(<<"n", " ">>)) }
  \cup { Body("income", a, Food, DateInWeek, NotStr) :
           a \in {QNum(4), QNum(0), QNum(-2), QText, QAbsent, QInf} }
  \cup { Body("transfer", QNum(2), Food, DateInWeek, NotStr),
         Body("transfer", QNum(0), Food, DateInWeek, NotStr) }
  \cup { Body("expense", QNum(2), c, DateInWeek, NotStr) :
           c \in {NotStr, Str(<<>>)} }
  \cup { Body("expense", QNum(2), Food, d, NotStr) :
           d \in {DateMalformed, <<>>} }

PutBodies ==
  { Body("expense", QNum(4), Food, DateInFebruary, NotStr),
    Body("income", QNum(2), Food, DateInWeek, NotStr),
    Body("transfer", QNum(2), Food, DateInWeek, NotStr),
    Body("income", QNum(0), Food, DateInWeek, NotStr) }

\* ids of rows that may exist and one past them; ids no row can have
RowIdParams == { QNum(2 * i) : i \in 1..(MaxRows + 1) }

BadIdParams == {QText, QNum(0), QNum(3)}

IdParams == RowIdParams \cup BadIdParams

PutParams ==
  (RowIdParams \X PutBodies)
  \cup (BadIdParams \X { Body("income", QNum(2), Food, DateInWeek, NotStr) })

\* the second user sends fewer kinds of bodies
PostBodiesOf(u) ==
  IF u = 1 THEN PostBodies
  ELSE { Body("income", QNum(4), Food, DateInWeek, NotStr),
         Body("expense", QNum(2), Food, DateInFebruary, NotStr),
         Body("income", QText, Food, DateInWeek, NotStr) }

RangeParams ==
  { <<<<>>, <<>>>>, <<DateInWeek, <<>>>>, <<DateMalformed, DateInFebruary>> }

\* the summary is also asked for up to a day and for a single day
SummaryParams ==
  RangeParams
  \cup { <<<<>>, DateInFebruary>>, <<DateInFebruary, DateInFebruary>> }

ListParams ==
  { <<r, QAbsent>> : r \in RangeParams }
  \cup { << <<<<>>, <<>>>>, l >> : l \in {QNum(2), QNum(3)} }

ReportPeriods == {PStr("week"), PStr("month")}

ReportCounts == {QAbsent, QNum(4), QNum(5)}

Init ==
  /\ txs = {}
  /\ nextId = 1
  /\ now = Today
  /\ resp = Idle
  /\ flights = NoFlights
  /\ sessions = {}
  /\ header = <<>>
  /\ issued = 0
  /\ users = {}
  /\ regs = NoRegs
  /\ writes = NoWrites
  /\ boot = Booted
  /\ client = NoClient

Next ==
  \/ /\ \E u \in Users : \E b \in PostBodiesOf(u) : PostTransaction(u, b)
     /\ Plain
  \/ /\ \E u \in Users, q \in PutParams : PutTransaction(u, q[1], q[2])
     /\ Plain
  \/ /\ \E u \in Users, id \in IdParams : DeleteTransaction(u, id)
     /\ Plain
  \/ /\ \E u \in Users, q \in ListParams :
          ListTransactions(u, q[1][1], q[1][2], q[2])
     /\ Plain
  \/ /\ \E u \in Users : Categories(u)
     /\ Plain
  \/ /\ \E u \in Users, r \in SummaryParams : Summary(u, r[1], r[2])
     /\ Plain
  \/ /\ \E u \in Users, p \in ReportPeriods, c \in ReportCounts :
          Report(u, p, c)
     /\ Plain
  \/ Deliver /\ Plain

Spec == Init /\ [][Next]_vars

(***************************************************************************)
(* Properties of the whole API (checked under Spec).                        *)
(***************************************************************************)
OwnRows(store, u) == { r \in store : r.user_id = u }

\* the date lies in the calendar period of the bucket with this key; a
\* well-formed date that is no calendar day (2024-02-30) is taken the way
\* the server takes it: by its month field in month mode and as the day the
\* overflow carries to (2024-03-01) in week mode
InPeriod(date, key, period) ==
  IF period = "month"
  THEN << date[1], date[2] >> = key
  ELSE LET first == DaysFromCivil(key[1], key[2], key[3])
           day   == DaysFromCivil(date[1], 1, 1)
                      + (DaysFromCivil(date[1], date[2], 1)
                           - DaysFromCivil(date[1], 1, 1))
                      + date[3] - 1
       IN  first <= day /\ day <= first + 6

RECURSIVE SumTotals(_)
SumTotals(buckets) ==
  IF buckets = <<>> THEN 0
  ELSE Head(buckets).income + Head(buckets).expense + SumTotals(Tail(buckets))

\* C6: after a report, the income (expense) of every bucket is the sum of
\* the amounts of the caller's stored income (expense) transactions whose
\* date lies in the bucket's calendar period, and a transaction dated outside
\* [start, end] adds to no bucket.
C6_FoldCorrect ==
  IsReport =>
    LET b    == resp.body
        mine == OwnRows(txs, resp.user)
    IN  /\ \A i \in 1..Len(b.buckets) :
             /\ b.buckets[i].income =
                  SumAmounts({ r \in mine :
                    r.type = "income"
                      /\ InPeriod(r.date, b.buckets[i].key, b.period) })
             /\ b.buckets[i].expense =
                  SumAmounts({ r \in mine :
                    r.type = "expense"
                      /\ InPeriod(r.date, b.buckets[i].key, b.period) })
        /\ SumTotals(b.buckets) <=
             SumAmounts({ r \in mine :
               StrLeq(b.start, r.date) /\ StrLeq(r.date, b.end) })

ReadOps == {"list", "categories", "summary", "report"}

WriteOps == {"post", "put", "delete"}

\* the bodies a successful read request of user u may get from a store
ReadBodies(store, u, op, req) ==
  CASE op = "list" ->
         { ListBody(store, u, req.start, req.end, ResolveLimit(req.limit).h) }
    [] op = "categories" -> { CategoriesBody(store, u) }
    [] op = "summary" -> { SummaryBody(store, u, req.start, req.end) }
    [] op = "report" ->
         LET period == ResolvePeriod(req.period)
             countH == ResolveCount(req.count)
             plan   == Plan(period, countH, req.today)
         IN  { ReportBody(period, countH, plan, rows) :
                 rows \in Orderings(FetchRange(store, u,
                                               formatDate(plan.rangeStart),
                                               formatDate(plan.rangeEnd))) }

\* rows of some other user than u, with ids and dates that collide with u's
ForeignRows(u) ==
  { [ id |-> i, user_id |-> 3 - u, type |-> t, amount |-> 14,
      category |-> <<"g">>, date |-> d, note |-> Null ] :
      i \in {1, 9}, t \in allowedTypes, d \in {DateInWeek, DateInFebruary} }

\* stores that agree with the store on u's rows and differ in the others'
StoresAgreeingOn(u) ==
  { OwnRows(txs, u), OwnRows(txs, u) \cup ForeignRows(u) }

\* every read request the model sends, as <<op, req>>
ReadRequests ==
  { << "list", [start |-> q[1][1], end |-> q[1][2], limit |-> q[2]] >> :
      q \in { x \in ListParams : ResolveLimit(x[2]).h % 2 = 0 } }
  \cup { << "categories", <<>> >> }
  \cup { << "summary", [start |-> r[1], end |-> r[2]] >> :
           r \in SummaryParams }
  \cup { << "report", [period |-> p, count |-> c, today |-> now] >> :
           p \in ReportPeriods, c \in ReportCounts }

C8_ReadFromOwnRows ==
  (resp.op \in ReadOps /\ resp.status = 200) =>
    \A store \in StoresAgreeingOn(resp.user) :
      resp.body \in ReadBodies(store, resp.user, resp.op, resp.req)

C8_WriteOfOtherUser ==
  (resp'.op \in WriteOps /\ txs' # txs) =>
    \A a \in Users \ {resp'.user} :
      \A q \in ReadRequests :
        ReadBodies(txs', a, q[1], q[2]) = ReadBodies(txs, a, q[1], q[2])

\* C8: every response of the read endpoints for user A is computed only from
\* the transactions A owns (it is the same over every store that agrees on
\* A's rows), and no create, update or delete of another user changes it.
C8_ReadsOwnRowsOnly ==
  /\ []C8_ReadFromOwnRows
  /\ [][C8_WriteOfOtherUser]_vars

\* C8 witness: user 1 gets a report with a bucket total while user 2 holds a
\* row inside the reported range.
C8_Witness ==
  /\ IsReport
  /\ resp.user = 1
  /\ SumTotals(resp.body.buckets) > 0
  /\ \E r \in OwnRows(txs, 2) :
       StrLeq(resp.body.start, r.date) /\ StrLeq(r.date, resp.body.end)

\* the PUT or DELETE just answered names, by a positive integer id, a row
\* the caller owns
NamesOwnRow ==
  /\ IsValidId(resp'.req.id)
  /\ \E r \in txs :
       r.id = Number(resp'.req.id).h \div 2 /\ r.user_id = resp'.user

PassesValidation ==
  /\ IsValidId(resp'.req.id)
  /\ resp'.op = "put" => BodyError(resp'.req.body) = ""

NotFound ==
  /\ resp'.status = 404
  /\ resp'.body = [error |-> "Transaction not found."]

OnlyNamedRowChanges ==
  LET id == Number(resp'.req.id).h \div 2
  IN  /\ { r \in txs : r.id # id } = { r \in txs' : r.id # id }
      /\ { r \in txs : r.user_id # resp'.user }
           = { r \in txs' : r.user_id # resp'.user }

\* C9 as stated: a PUT or DELETE changes or removes a row only if the row
\* exists and is owned by the caller; when the (positive integer) id belongs
\* to another user or to no row the response is 404 'Transaction not found.'
\* and the store is unchanged.
C9_Original ==
  [][ resp'.op \in {"put", "delete"} =>
        /\ txs' # txs => (NamesOwnRow /\ OnlyNamedRowChanges)
        /\ (IsValidId(resp'.req.id) /\ ~NamesOwnRow) =>
             (NotFound /\ txs' = txs) ]_vars

\* C9 as amended: a PUT or DELETE changes or removes a row only if the row
\* exists and is owned by the caller; when the id belongs to another user or
\* to no row the store is unchanged, and the response is 404 'Transaction
\* not found.' if the request passes validation and 400 otherwise.
C9_OwnRowOnly ==
  [][ resp'.op \in {"put", "delete"} =>
        /\ txs' # txs => (NamesOwnRow /\ OnlyNamedRowChanges)
        /\ ~NamesOwnRow => txs' = txs
        /\ (PassesValidation /\ ~NamesOwnRow) => NotFound
        /\ ~PassesValidation => (resp'.status = 400 /\ txs' = txs) ]_vars

\* C9 witness: a PUT with a valid body on a row of the other user was
\* answered 404 and the row is still there.
C9_Witness ==
  /\ resp.op = "put"
  /\ resp.status = 404
  /\ \E r \in txs :
       r.id = Number(resp.req.id).h \div 2 /\ r.user_id # resp.user

StoredValid ==
  \A r \in txs : r.amount > 0 /\ r.type \in {"income", "expense"}

\* the type is none of the two kinds, or the amount is zero, negative,
\* non-finite or not a number
BadTypeOrAmount(b) ==
  \/ b.type # "income" /\ b.type # "expense"
  \/ b.amount.k \in {"absent", "text", "inf"}
  \/ b.amount.k = "num" /\ b.amount.h <= 0

\* C10: after any sequence of POST and PUT requests every stored transaction
\* has amount > 0 and kind in {income, expense}; a request whose type is
\* anything else or whose amount is zero, negative, non-finite or non-numeric
\* is answered 400 and stores nothing.
C10_StoredRowsValid ==
  /\ []StoredValid
  /\ [][ (resp'.op \in {"post", "put"} /\ BadTypeOrAmount(resp'.req.body)) =>
           (resp'.status = 400 /\ txs' = txs) ]_vars

\* C10 witness: rows are stored and a PUT with a zero amount on one of them
\* was answered 400.
C10_Witness ==
  /\ resp.op = "put"
  /\ resp.status = 400
  /\ resp.body = [error |-> "Amount must be a positive number."]
  /\ \E r \in txs :
       r.id = Number(resp.req.id).h \div 2 /\ r.user_id = resp.user

(***************************************************************************)
(* POST and PUT of one user over bodies that differ in date, category and   *)
(* note.                                                                    *)
(***************************************************************************)
\* well-formed dates: a leap day, and days that are on no calendar
WriteDates ==
  { <<2024, 2, 29>>, <<2023, 2, 29>>, <<2024, 2, 30>>, <<2024, 0, 10>>,
    <<2024, 13, 10>>, <<2024, 3, 0>>, <<2024, 3, 32>> }

WriteCategories ==
  { Str(<<" ">>), Str(<<" ", " ">>), Str(<<"g", " ">>), Str(<<" ", "f">>),
    Str(<<>>), NotStr }

WriteNotes ==
  { Str(<<>>), Str(<<" ">>), Str(<<" ", "n">>), Str(<<"n", " ", "n">>), Null }

WriteBodies ==
  { Body("expense", QNum(2), Food, d, NotStr) :
      d \in WriteDates \cup {DateMalformed} }
  \cup { Body("expense", QNum(2), c, DateInWeek, NotStr) :
           c \in WriteCategories }
  \cup { Body("income", QNum(2), Food, DateInWeek, n) : n \in WriteNotes }

WritePutBodies ==
  { Body("income", QNum(4), Food, <<2023, 2, 29>>, Str(<<" ">>)),
    Body("income", QNum(4), Str(<<" ">>), DateInFebruary, Str(<<"n", " ">>)),
    Body("income", QNum(4), Food, DateInFebruary, NotStr),
    Body("income", QNum(4), Food, DateMalformed, NotStr) }

NextWrites ==
  \/ (\E b \in WriteBodies : PostTransaction(1, b)) /\ Plain
  \/ /\ \E id \in RowIdParams, b \in WritePutBodies :
          PutTransaction(1, id, b)
     /\ Plain
  \/ Deliver /\ Plain

SpecWrites == Init /\ [][NextWrites]_vars

(***************************************************************************)
(* Properties of the stored rows (checked under SpecWrites).                *)
(***************************************************************************)
\* the string is a date of the calendar
IsCalendarDate(date) ==
  /\ Len(date) = 3
  /\ date[2] \in 1..12
  /\ date[3] \in 1..LastDayOfMonth(<< date[1], date[2] >>)

\* the date has the shape YYYY-MM-DD and names no day
NamesNoDay(date) == Len(date) = 3 /\ ~IsCalendarDate(date)

\* C11: after any sequence of POST and PUT requests the date of every stored
\* transaction is a valid calendar date in YYYY-MM-DD form; a request whose
\* date has the shape but names no real day (month 00 or 13, day 00 or 32,
\* February 30, February 29 of a non-leap year) is answered 400 and stores
\* nothing.
C11_StoredDatesValid ==
  /\ [](\A r \in txs : IsCalendarDate(r.date))
  /\ [][ ( /\ resp'.op \in {"post", "put"}
           /\ NamesNoDay(resp'.req.body.date) ) =>
           (resp'.status = 400 /\ txs' = txs) ]_vars

IsTrimmed(s) == s # <<>> /\ Head(s) # " " /\ s[Len(s)] # " "

\* C12: after any sequence of POST and PUT requests the category of every
\* stored transaction is a non-empty string with no leading or trailing
\* whitespace, and the note is null or a non-empty trimmed string, never the
\* empty string.
C12_StoredTextsTrimmed ==
  \A r \in txs :
    /\ IsTrimmed(r.category)
    /\ r.note # Null => (r.note.k = "str" /\ IsTrimmed(r.note.s))

(***************************************************************************)
(* The period of a report (checked under SpecPlan).                         *)
(***************************************************************************)
\* C13: the resolved period of a report is 'week' exactly when the period
\* parameter is the string 'week'; for every other value (absent, empty,
\* 'quarter', 'Week', a repeated parameter) it is 'month', the request is
\* answered with the month report of the same count and no error is raised.
C13_PeriodFallback ==
  resp.op = "report" =>
    /\ resp.status = 200
    /\ resp.body.period = "week" <=> resp.req.period = PStr("week")
    /\ resp.req.period # PStr("week") =>
         /\ resp.body.period = "month"
         /\ \A i \in 1..Len(Keys) : Len(Keys[i]) = 2
         /\ resp.body \in
              ReadBodies(txs, resp.user, "report",
                         [resp.req EXCEPT !.period = PStr("month")])

\* C13 witness: a repeated period parameter was answered with month buckets.
C13_Witness ==
  /\ IsReport
  /\ resp.req.period = PArray("week")
  /\ resp.body.period = "month"
  /\ Len(Keys) = 6

(***************************************************************************)
(* The summary (checked under Spec).                                        *)
(***************************************************************************)
\* a range bound that is supplied and is a date
Supplied(bound) == bound # <<>> /\ IsCalendarDate(bound)

\* the caller's rows inside the inclusive range of a summary request
InRange(store, u, start, end) ==
  { r \in OwnRows(store, u) :
      /\ Supplied(start) => ~StrLess(r.date, start)
      /\ Supplied(end) => ~StrLess(end, r.date) }

\* C14: GET /api/summary returns income (expense) = the sum of the caller's
\* income (expense) amounts over the caller's transactions with date >= start
\* when a valid start is supplied and date <= end when a valid end is
\* supplied, both inclusive and each side unbounded when its bound is absent,
\* with balance = income - expense, and all three 0 when no row matches.
C14_SummaryTotals ==
  ( /\ resp.op = "summary"
    /\ resp.req.start = <<>> \/ Supplied(resp.req.start)
    /\ resp.req.end = <<>> \/ Supplied(resp.req.end) ) =>
    LET rows == InRange(txs, resp.user, resp.req.start, resp.req.end)
        b    == resp.body
    IN  /\ resp.status = 200
        /\ b.income = SumAmounts({ r \in rows : r.type = "income" })
        /\ b.expense = SumAmounts({ r \in rows : r.type = "expense" })
        /\ b.balance = b.income - b.expense
        /\ rows = {} => (b.income = 0 /\ b.expense = 0 /\ b.balance = 0)

\* C14 witness: a summary of a single day that counts a row of that day and
\* leaves out a later row of the caller, with a negative balance.
C14_Witness ==
  /\ resp.op = "summary"
  /\ resp.req = [start |-> DateInFebruary, end |-> DateInFebruary]
  /\ resp.body.balance < 0
  /\ \E r \in OwnRows(txs, resp.user) : StrLess(resp.req.end, r.date)

(***************************************************************************)
(* Reports in flight while rows are being added.                            *)
(***************************************************************************)
\* a well-formed date that is no calendar day and that string order puts
\* inside the weeks before Today while its Date lies months after them
DateFarOverflow == <<2024, 2, 99>>

FlightBodiesOf(u) ==
  IF u = 1
  THEN { Body("income", QNum(2), Food, DateInWeek, NotStr),
         Body("expense", QNum(4), Food, DateFarOverflow, NotStr) }
  ELSE { Body("income", QNum(6), Food, DateInWeek, NotStr) }

FlightRequests == { <<PStr("week"), QNum(8)>>, <<PStr("month"), QNum(8)>> }

\* nothing but the store and the report handlers moves
Quiet == NoAuth /\ Elsewhere

NextConcurrent ==
  \/ /\ \E u \in Users : \E b \in FlightBodiesOf(u) : PostTransaction(u, b)
     /\ Plain
  \/ Deliver /\ Plain
  \/ /\ \E i \in Flights, u \in Users, q \in FlightRequests :
          ReportBegin(i, u, q[1], q[2])
     /\ Quiet
  \/ (\E i \in Flights : DbExecute(i)) /\ Quiet
  \/ (\E i \in Flights : DbReject(i)) /\ Quiet
  \/ (\E i \in Flights : ReportResume(i)) /\ Quiet
  \/ (\E i \in Flights : ReportCatch(i)) /\ Quiet
  \/ (\E i \in Flights : ReportEnd(i)) /\ Quiet

SpecConcurrent == Init /\ [][NextConcurrent]_vars

(***************************************************************************)
(* Properties of reports in flight (checked under SpecConcurrent).          *)
(***************************************************************************)
\* the rows the fetch of a flight returned, as a set
FetchedRows(f) == { f.rows[k] : k \in 1..Len(f.rows) }

\* the fetched rows whose recomputed key is the key of a planned bucket
Matched(f) ==
  { r \in FetchedRows(f) :
      \E k \in 1..Len(f.body.buckets) :
        f.body.buckets[k].key = RowKey(f.period, r) }

\* C15: if the storage query of a report request fails, the request ends
\* with HTTP 500 'Unable to generate report.' and no buckets; no successful
\* report response carries buckets into which only part of the fetched rows
\* were folded.
C15_FailsWhole ==
  \A i \in Flights :
    flights[i].pc = "done" =>
      LET f == flights[i]
      IN  /\ f.fetch = "error" =>
               /\ f.status = 500
               /\ f.body = [error |-> "Unable to generate report."]
          /\ f.status = 200 =>
               /\ f.fetch = "rows"
               /\ SumTotals(f.body.buckets) = SumAmounts(Matched(f))

\* C15 witness: the fetch of a report failed while the caller held rows
\* inside the range, and the request was answered 500.
C15_Witness ==
  \E i \in Flights :
    /\ flights[i].pc = "done"
    /\ flights[i].fetch = "error"
    /\ flights[i].status = 500
    /\ FetchRange(txs, flights[i].user, formatDate(flights[i].rangeStart),
                  formatDate(flights[i].rangeEnd)) # {}

\* C16: when report requests are in flight at once and their fetches
\* interleave in any order, each response equals the response the request
\* would produce alone against the rows its own fetch returned; no bucket of
\* one request accumulates a row fetched for another.
C16_FlightsIndependent ==
  \A i \in Flights :
    (flights[i].pc = "done" /\ flights[i].fetch = "rows") =>
      LET f      == flights[i]
          period == ResolvePeriod(f.req.period)
          countH == ResolveCount(f.req.count)
      IN  /\ f.status = 200
          /\ f.body = ReportBody(period, countH,
                                 Plan(period, countH, f.req.today), f.rows)

\* C16 witness: two reports of different users and periods were in flight
\* together, fetched different rows and were both answered with totals.
C16_Witness ==
  /\ \A i \in Flights :
       /\ flights[i].pc = "done"
       /\ flights[i].status = 200
       /\ SumTotals(flights[i].body.buckets) > 0
  /\ flights[1].user # flights[2].user
  /\ flights[1].period # flights[2].period
  /\ flights[1].rows # flights[2].rows

\* C19: a fetched row whose recomputed bucket key matches no planned bucket
\* is skipped without an error: the report still succeeds with status 200,
\* the row adds to no bucket, and every other fetched row is folded into its
\* bucket.
C19_UnmatchedRowSkipped ==
  \A i \in Flights :
    (flights[i].pc = "done" /\ flights[i].fetch = "rows") =>
      LET f == flights[i]
      IN  /\ f.status = 200
          /\ \A k \in 1..Len(f.body.buckets) :
               LET mine == { r \in FetchedRows(f) :
                               RowKey(f.period, r) = f.body.buckets[k].key }
               IN  /\ f.body.buckets[k].income =
                        SumAmounts({ r \in mine : r.type = "income" })
                   /\ f.body.buckets[k].expense =
                        SumAmounts({ r \in mine : r.type = "expense" })

\* C19 witness: a report fetched a row that matches no bucket together with
\* a row that does, and was answered 200 with the second row's amount.
C19_Witness ==
  \E i \in Flights :
    /\ flights[i].pc = "done"
    /\ flights[i].status = 200
    /\ FetchedRows(flights[i]) \ Matched(flights[i]) # {}
    /\ Matched(flights[i]) # {}
    /\ SumTotals(flights[i].body.buckets) > 0

Header(scheme, token) == <<scheme, " ">> \o token

Headers ==
  { <<>>, <<"Bearer">>, Header("Bearer", <<>>), Header("Basic", TokenTexts[1]),
    Header("bearer", TokenTexts[1]), Header("Bearer", TokenTexts[1]) \o <<" ">> }
  \cup { Header("Bearer", TokenTexts[k]) : k \in 1..(MaxSessions + 1) }

AuthBody == Body("income", QNum(2), Food, DateInWeek, NotStr)

\* time passes: half a session lifetime at a time
Tick ==
  /\ now < Today + MaxTicks * (SessionTtlDays \div 2)
  /\ now' = now + SessionTtlDays \div 2
  /\ UNCHANGED <<txs, nextId, resp, flights, sessions, header, issued>>

NextAuth ==
  \/ (\E u \in Users : createSession(u)) /\ Elsewhere
  \/ Tick /\ Elsewhere
  \/ (\E h \in Headers : Refuse(h)) /\ Elsewhere
  \/ /\ \E h \in Headers : Admit(h) /\ PostTransaction(ReqUser(h), AuthBody)
     /\ Elsewhere
  \/ /\ \E h \in Headers : Admit(h) /\ Summary(ReqUser(h), <<>>, <<>>)
     /\ Elsewhere
  \/ DeliverProtected /\ Elsewhere

SpecAuth == Init /\ [][NextAuth]_vars

(***************************************************************************)
(* Properties of requireAuth (checked under SpecAuth).                      *)
(***************************************************************************)
NotSpace(c) == c # " "

\* the header is 'Bearer <token>' for this token
Carries(h, token) ==
  /\ Len(h) >= 3
  /\ h[1] = "Bearer"
  /\ h[2] = " "
  /\ SelectSeq(SubSeq(h, 3, Len(h)), NotSpace) = token

\* the header carries the token of no session row
MatchesNoSession(h, store) == \A s \in store : ~Carries(h, s.token)

\* C20: a request to a protected endpoint is handled on behalf of user U only
\* if it carries 'Authorization: Bearer <token>' where <token> is the token
\* of an existing, unexpired session row of U; a request with no
\* Authorization header, a non-Bearer header, or a token that matches no
\* session row is answered 401 'Unauthorized.' and reads or writes no
\* transaction.
C20_AuthRequired ==
  [][ (resp = Idle /\ resp' # Idle) =>
        /\ resp'.op # "auth" =>
             \E s \in sessions :
               /\ Carries(header', s.token)
               /\ s.user_id = resp'.user
               /\ s.expires_at > now
        /\ MatchesNoSession(header', sessions) =>
             /\ resp'.status = 401
             /\ resp'.body = [error |-> "Unauthorized."]
             /\ txs' = txs
             /\ nextId' = nextId ]_vars

\* C20 witness: both users hold a session, and a request with the token of
\* user 2 has stored a row of user 2.
C20_Witness ==
  /\ resp.op = "post"
  /\ resp.status = 201
  /\ resp.user = 2
  /\ \E s \in sessions : s.user_id = 1
  /\ \E s \in sessions : s.user_id = 2 /\ Carries(header, s.token)
  /\ \E r \in txs : r.user_id = 2

(***************************************************************************)
(* Session lifetime (checked under SpecAuth).                               *)
(***************************************************************************)
\* the tokens drawn so far whose session row is gone
GoneTokens ==
  { TokenTexts[k] : k \in 1..issued } \ { s.token : s \in sessions }

\* a request is being answered by this step
Answers == resp = Idle /\ resp' # Idle

\* the step answers 401 from requireAuth, the route's handler not run
Answers401 ==
  /\ resp'.op = "auth"
  /\ resp'.status = 401
  /\ txs' = txs
  /\ nextId' = nextId

\* C21: a session authenticates requests only strictly before its
\* expires_at, which is its creation time plus 14 days: the first protected
\* request made with its token at or after expires_at is answered 401
\* 'Session expired.' and deletes that session row, so every later request
\* with that token is answered 401 as well and the handler behind
\* requireAuth never runs for it.
C21_SessionExpiry ==
  [][ /\ \A s \in sessions' \ sessions : s.expires_at = now + 14
      /\ Answers =>
           /\ \A s \in sessions :
                Carries(header', s.token) =>
                  IF s.expires_at <= now
                  THEN /\ Answers401
                       /\ resp'.body = [error |-> "Session expired."]
                       /\ sessions' = sessions \ {s}
                  ELSE /\ resp'.op # "auth"
                       /\ resp'.user = s.user_id
                       /\ sessions' = sessions
           /\ \A t \in GoneTokens : Carries(header', t) => Answers401 ]_vars

\* C21 witness: a request made exactly at expires_at of the first session
\* has been answered 'Session expired.' and the row is gone.
C21_Witness ==
  /\ resp.op = "auth"
  /\ resp.body = [error |-> "Session expired."]
  /\ Carries(header, TokenTexts[1])
  /\ TokenTexts[1] \in GoneTokens
  /\ now = Today + SessionTtlDays

\* the caller's rows the report's query returns that name a calendar day
ValidFetched ==
  { r \in FetchRange(txs, resp.user, resp.body.start, resp.body.end) :
      IsCalendarDate(r.date) }

\* C22: in both period modes, every fetched row whose date is a valid
\* calendar date within [start, end] is folded into exactly one bucket,
\* namely the bucket whose period contains that date (the key the fold
\* recomputes for the row equals the key the planner gave that period); hence
\* the sum of income plus expense over all buckets equals the sum of amounts
\* of all such rows, with no row lost and none counted twice.
C22_EveryRowInOneBucket ==
  IsReport =>
    LET b == resp.body
    IN  /\ \A r \in ValidFetched :
             /\ Cardinality({ i \in 1..Len(b.buckets) :
                  b.buckets[i].key = RowKey(b.period, r) }) = 1
             /\ \A i \in 1..Len(b.buckets) :
                  b.buckets[i].key = RowKey(b.period, r)
                    <=> InPeriod(r.date, b.buckets[i].key, b.period)
        /\ SumTotals(b.buckets) = SumAmounts(ValidFetched)

(***************************************************************************)
(* Accounts: table users, password hashes, login and logout.                *)
(***************************************************************************)
UpperCase ==
  << "A", "B", "C", "D", "E", "F", "G", "H", "I", "J", "K", "L", "M",
     "N", "O", "P", "Q", "R", "S", "T", "U", "V", "W", "X", "Y", "Z" >>

LowerCase ==
  << "a", "b", "c", "d", "e", "f", "g", "h", "i", "j", "k", "l", "m",
     "n", "o", "p", "q", "r", "s", "t", "u", "v", "w", "x", "y", "z" >>

\* COLLATE NOCASE folds the 26 upper case characters of ASCII and no others
NoCaseChar(c) ==
  IF \E k \in 1..26 : UpperCase[k] = c
  THEN LowerCase[CHOOSE k \in 1..26 : UpperCase[k] = c]
  ELSE c

NoCase(text) == [k \in 1..Len(text) |-> NoCaseChar(text[k])]

\* WHERE username = ? on the column declared COLLATE NOCASE
UsersNamed(table, name) ==
  { row \in table : NoCase(row.username) = NoCase(name) }

\* crypto.scryptSync(password, salt, 64): different passwords or salts give
\* different hashes
scrypt(password, salt) == << "scrypt", salt, password >>

hashPassword(password, salt) ==
  [ salt |-> salt, hash |-> scrypt(password, salt) ]

verifyPassword(password, salt, hash) == scrypt(password, salt) = hash

\* typeof username === 'string' ? username.trim() : ''
cleanName(username) == IF username.k = "str" THEN trim(username.s) ELSE <<>>

Ann == << "a", "n", "n" >>

Bob == << "b", "o", "b" >>

Secret == << "s", "e", "c", "r", "e", "t" >>

Hunter == << "h", "u", "n", "t", "e", "r" >>

\* two accounts as two registrations left them
Accounts ==
  { [ id |-> 1, username |-> Ann, password_salt |-> "s1",
      password_hash |-> scrypt(Secret, "s1") ],
    [ id |-> 2, username |-> Bob, password_salt |-> "s2",
      password_hash |-> scrypt(Hunter, "s2") ] }

Credentials(username, password) ==
  [ username |-> username, password |-> password ]

\* POST /api/auth/login
Login(c) ==
  LET cleanUsername == cleanName(c.username)
      found == UsersNamed(users, cleanUsername)
  IN  /\ resp = Idle
      /\ header' = <<>>
      /\ IF cleanUsername = <<>> \/ c.password.k # "str"
         THEN /\ resp' = Error("login", 0, c, 400,
                               "Username and password are required.")
              /\ UNCHANGED <<sessions, issued>>
         ELSE IF found = {}
                 \/ \E user \in found :
                      ~verifyPassword(c.password.s, user.password_salt,
                                      user.password_hash)
         THEN /\ resp' = Error("login", 0, c, 401,
                               "Invalid username or password.")
              /\ UNCHANGED <<sessions, issued>>
         ELSE \E user \in found :
                /\ issued < MaxSessions
                /\ sessions' = sessions \cup { NewSession(user.id) }
                /\ issued' = issued + 1
                /\ resp' = Ok("login", user.id, c, 200,
                              [ token |-> NewSession(user.id).token,
                                user  |-> [ id |-> user.id,
                                            username |-> user.username ] ])
      /\ UNCHANGED <<txs, nextId, now, flights>>

DeleteAllOfUser(store, token) ==
  { s \in store : \A t \in store : t.token = token => s.user_id # t.user_id }

\* DELETE FROM sessions WHERE token = ?
DeleteByToken(store, token) == { s \in store : s.token # token }

\* POST /api/auth/logout behind requireAuth
Logout(h) ==
  /\ resp = Idle
  /\ requireAuth(sessions, h, now).status = 0
  /\ header' = h
  /\ sessions' = DeleteByToken(sessions, getToken(h))
  /\ resp' = Ok("logout", ReqUser(h), <<>>, 204, <<>>)
  /\ UNCHANGED <<txs, nextId, now, flights, issued>>

InitLogout ==
  /\ txs = {}
  /\ nextId = 1
  /\ now = Today
  /\ resp = Idle
  /\ flights = NoFlights
  /\ sessions = {}
  /\ header = <<>>
  /\ issued = 0
  /\ users = Accounts
  /\ regs = NoRegs
  /\ writes = NoWrites
  /\ boot = Booted
  /\ client = NoClient

LoginRequests ==
  { Credentials(Str(Ann), Str(Secret)),
    Credentials(Str(<< "B", "o", "b", " " >>), Str(Hunter)),
    Credentials(Str(Bob), Str(Secret)),
    Credentials(Str(<< "e", "v", "e" >>), Str(Secret)),
    Credentials(NotStr, Str(Secret)),
    Credentials(Str(Ann), NotStr) }

NextLogout ==
  \/ (\E c \in LoginRequests : Login(c)) /\ Elsewhere
  \/ (\E h \in Headers : Logout(h)) /\ Elsewhere
  \/ (\E h \in Headers : Refuse(h)) /\ Elsewhere
  \/ /\ \E h \in Headers : Admit(h) /\ PostTransaction(ReqUser(h), AuthBody)
     /\ Elsewhere
  \/ /\ \E h \in Headers : Admit(h) /\ Summary(ReqUser(h), <<>>, <<>>)
     /\ Elsewhere
  \/ DeliverProtected /\ Elsewhere

SpecLogout == InitLogout /\ [][NextLogout]_vars

\* C23: after POST /api/auth/logout succeeds (204) for a token, every later
\* request carrying that token is answered 401; the logout deletes only that
\* one session row, so the user account, the user's transactions and every
\* other session of the same or of any other user remain and keep
\* authenticating.
C23_LogoutEndsOneSession ==
  [][ Answers =>
        /\ resp'.op = "logout" =>
             /\ resp'.status = 204
             /\ \E s \in sessions :
                  /\ Carries(header', s.token)
                  /\ sessions' = sessions \ {s}
             /\ users' = users
             /\ txs' = txs
        /\ \A t \in GoneTokens : Carries(header', t) => Answers401
        /\ \A s \in sessions :
             (Carries(header', s.token) /\ resp'.op # "login") =>
               /\ resp'.op # "auth"
               /\ resp'.user = s.user_id ]_vars

\* C23 witness: the first session was logged out, and a later request with
\* the token of the second session, a session of user 1, has been answered
\* with the summary of user 1, whose account and row are still stored.
C23_Witness ==
  /\ issued = 2
  /\ TokenTexts[1] \in GoneTokens
  /\ \E s \in sessions : s.user_id = 1 /\ Carries(header, s.token)
  /\ resp.op = "summary"
  /\ resp.status = 200
  /\ resp.user = 1
  /\ \E r \in txs : r.user_id = 1
  /\ users = Accounts

(***************************************************************************)
(* POST /api/auth/register, handlers interleaving at their storage calls.   *)
(* A step of a handler runs its code up to the next await and lets the      *)
(* store execute the statement awaited there.                               *)
(***************************************************************************)
\* crypto.randomBytes(16).toString('hex')
Salts == {"s1", "s2"}

\* the response of a register handler
RegDone(reg, status, body) ==
  [ reg EXCEPT !.pc = "done", !.status = status, !.body = body ]

\* lines 167-179: validate, then SELECT id FROM users WHERE username = ?
RegisterBegin(i, c) ==
  LET cleanUsername == cleanName(c.username)
      reg == [ IdleReg EXCEPT !.req = c, !.cleanUsername = cleanUsername ]
  IN  /\ regs[i].pc = "idle"
      /\ regs' = [ regs EXCEPT ![i] =
           IF Len(cleanUsername) < 3 \/ Len(cleanUsername) > 30
           THEN RegDone(reg, 400,
                        [error |-> "Username must be 3-30 characters."])
           ELSE IF c.password.k # "str" \/ Len(c.password.s) < 6
           THEN RegDone(reg, 400,
                        [error |-> "Password must be at least 6 characters."])
           ELSE [ reg EXCEPT !.pc = "selected",
                             !.existing = UsersNamed(users, cleanUsername) ] ]
      /\ UNCHANGED <<txs, nextId, now, resp, flights, sessions, header,
                     issued, users, writes, boot, client>>

\* lines 181-189: the 409, or hashPassword and INSERT INTO users; the column
\* username is UNIQUE COLLATE NOCASE, and a violated constraint makes
\* db.execute throw into the catch of line 200
RegisterInsert(i) ==
  LET reg == regs[i]
  IN  /\ reg.pc = "selected"
      /\ IF reg.existing # {}
         THEN /\ regs' = [ regs EXCEPT ![i] =
                   RegDone(reg, 409, [error |-> "Username is already taken."]) ]
              /\ users' = users
         ELSE IF UsersNamed(users, reg.cleanUsername) # {}
         THEN /\ regs' = [ regs EXCEPT ![i] =
                   RegDone(reg, 500, [error |-> "Unable to register."]) ]
              /\ users' = users
         ELSE \E salt \in Salts :
                LET id == Cardinality(users) + 1
                    h  == hashPassword(reg.req.password.s, salt)
                IN  /\ users' = users \cup
                         { [ id |-> id, username |-> reg.cleanUsername,
                             password_salt |-> h.salt,
                             password_hash |-> h.hash ] }
                    /\ regs' = [ regs EXCEPT ![i] =
                         [ reg EXCEPT !.pc = "inserted", !.userId = id ] ]
      /\ UNCHANGED <<txs, nextId, now, resp, flights, sessions, header,
                     issued, writes, boot, client>>

\* lines 191-197: createSession(userId) and the 201
RegisterSession(i) ==
  LET reg == regs[i]
  IN  /\ reg.pc = "inserted"
      /\ issued < MaxSessions
      /\ sessions' = sessions \cup { NewSession(reg.userId) }
      /\ issued' = issued + 1
      /\ regs' = [ regs EXCEPT ![i] =
           RegDone(reg, 201,
                   [ token |-> NewSession(reg.userId).token,
                     user  |-> [ id |-> reg.userId,
                                 username |-> reg.cleanUsername ] ]) ]
      /\ UNCHANGED <<txs, nextId, now, resp, flights, header, users, writes,
                     boot, client>>

\* the response has been written to the socket
RegisterEnd(i) ==
  /\ regs[i].pc = "done"
  /\ regs' = [ regs EXCEPT ![i] = IdleReg ]
  /\ UNCHANGED <<txs, nextId, now, resp, flights, sessions, header, issued,
                 users, writes, boot, client>>

RegisterRequests ==
  { Credentials(Str(Ann), Str(Secret)),
    Credentials(Str(<< " ", "A", "n", "n", " " >>), Str(Hunter)),
    Credentials(Str(Bob), Str(Secret)),
    Credentials(Str(<< "a", "b", " " >>), Str(Secret)),
    Credentials(NotStr, Str(Secret)),
    Credentials(Str(Bob), Str(<< "p", "w" >>)),
    Credentials(Str(Bob), NotStr) }

NextRegister ==
  \/ \E i \in Regs, c \in RegisterRequests : RegisterBegin(i, c)
  \/ \E i \in Regs : RegisterInsert(i)
  \/ \E i \in Regs : RegisterSession(i)
  \/ \E i \in Regs : RegisterEnd(i)

SpecRegister == Init /\ [][NextRegister]_vars

\* the register handler i is answering by this step
RegAnswers(i) == regs[i].pc # "done" /\ regs'[i].pc = "done"

\* the request of handler i passes the checks of username and password
RegValid(i) ==
  /\ Len(regs'[i].cleanUsername) \in 3..30
  /\ regs'[i].req.password.k = "str"
  /\ Len(regs'[i].req.password.s) >= 6

\* C24: a registration whose trimmed username is already taken (compared
\* case-insensitively) is answered 409 'Username is already taken.' and
\* creates no user and no session, also when two registrations for the same
\* username are in flight at once and interleave at their storage calls;
\* after any interleaving of registrations at most one user exists per
\* username.
C24_TakenNameAnswered409 ==
  [][ /\ \A i \in Regs :
           ( /\ RegAnswers(i)
             /\ RegValid(i)
             /\ regs[i].pc # "inserted"
             /\ UsersNamed(users, regs'[i].cleanUsername) # {} ) =>
               /\ regs'[i].status = 409
               /\ regs'[i].body = [error |-> "Username is already taken."]
               /\ users' = users
               /\ sessions' = sessions
      /\ \A a, b \in users' :
           NoCase(a.username) = NoCase(b.username) => a = b ]_vars

(***************************************************************************)
(* POST, PUT and DELETE /api/transactions with the handlers interleaving at *)
(* their storage calls: a step runs a handler up to its next await and lets *)
(* the store execute the statement awaited there.                           *)
(***************************************************************************)
WriteDone(w, status, body) ==
  [ w EXCEPT !.pc = "done", !.status = status, !.body = body ]

\* res.json({ transaction: rows[0] }): JSON leaves out a key whose value is
\* undefined, so no row gives the object {}
TransactionJson(rows, w) ==
  IF rows = {} THEN <<>>
  ELSE [transaction |-> Columns(CHOOSE r \in rows : TRUE)]

\* POST, lines 297-324: the checks and the INSERT
PostBegin(i, u, b) ==
  LET w == [ IdleWrite EXCEPT !.op = "post", !.user = u,
                              !.req = [body |-> b] ]
  IN  /\ writes[i].pc = "idle"
      /\ IF BodyError(b) # ""
         THEN /\ writes' = [ writes EXCEPT ![i] =
                   WriteDone(w, 400, [error |-> BodyError(b)]) ]
              /\ UNCHANGED <<txs, nextId>>
         ELSE /\ nextId <= MaxRows
              /\ txs' = txs \cup { NewRow(nextId, u, b) }
              /\ nextId' = nextId + 1
              /\ writes' = [ writes EXCEPT ![i] =
                   [ w EXCEPT !.pc = "written", !.id = nextId ] ]
      /\ UNCHANGED <<now, resp, flights, sessions, header, issued, users,
                     regs, boot, client>>

\* PUT, lines 344-380: the checks, the UPDATE and the 404
PutBegin(i, u, idParam, b) ==
  LET id  == Number(idParam).h \div 2
      hit == Targets(txs, id, u)
      w   == [ IdleWrite EXCEPT !.op = "put", !.user = u,
                                !.req = [id |-> idParam, body |-> b] ]
  IN  /\ writes[i].pc = "idle"
      /\ IF ~IsValidId(idParam)
         THEN /\ writes' = [ writes EXCEPT ![i] =
                   WriteDone(w, 400, [error |-> "Invalid transaction id."]) ]
              /\ txs' = txs
         ELSE IF BodyError(b) # ""
         THEN /\ writes' = [ writes EXCEPT ![i] =
                   WriteDone(w, 400, [error |-> BodyError(b)]) ]
              /\ txs' = txs
         ELSE IF hit = {}
         THEN /\ writes' = [ writes EXCEPT ![i] =
                   WriteDone(w, 404, [error |-> "Transaction not found."]) ]
              /\ txs' = txs
         ELSE /\ txs' = (txs \ hit) \cup
                          { NewRow(r.id, r.user_id, b) : r \in hit }
              /\ writes' = [ writes EXCEPT ![i] =
                   [ w EXCEPT !.pc = "written", !.id = id ] ]
      /\ UNCHANGED <<nextId, now, resp, flights, sessions, header, issued,
                     users, regs, boot, client>>

\* lines 326-335 and 382-391: the read-back query and the response
ReadBack(i) ==
  LET w    == writes[i]
      rows == Targets(txs, w.id, w.user)
  IN  /\ w.pc = "written"
      /\ writes' = [ writes EXCEPT ![i] =
           WriteDone(w, IF w.op = "post" THEN 201 ELSE 200,
                     TransactionJson(rows, w)) ]
      /\ UNCHANGED <<txs, nextId, now, resp, flights, sessions, header,
                     issued, users, regs, boot, client>>

\* DELETE, lines 400-423: one statement
DeleteRun(i, u, idParam) ==
  LET id  == Number(idParam).h \div 2
      hit == Targets(txs, id, u)
      w   == [ IdleWrite EXCEPT !.op = "delete", !.user = u,
                                !.req = [id |-> idParam] ]
  IN  /\ writes[i].pc = "idle"
      /\ IF ~IsValidId(idParam)
         THEN /\ writes' = [ writes EXCEPT ![i] =
                   WriteDone(w, 400, [error |-> "Invalid transaction id."]) ]
              /\ txs' = txs
         ELSE IF hit = {}
         THEN /\ writes' = [ writes EXCEPT ![i] =
                   WriteDone(w, 404, [error |-> "Transaction not found."]) ]
              /\ txs' = txs
         ELSE /\ txs' = txs \ hit
              /\ writes' = [ writes EXCEPT ![i] = WriteDone(w, 204, <<>>) ]
      /\ UNCHANGED <<nextId, now, resp, flights, sessions, header, issued,
                     users, regs, boot, client>>

\* the response has been written to the socket
WriteEnd(i) ==
  /\ writes[i].pc = "done"
  /\ writes' = [ writes EXCEPT ![i] = IdleWrite ]
  /\ UNCHANGED <<txs, nextId, now, resp, flights, sessions, header, issued,
                 users, regs, boot, client>>

RaceBodies ==
  { Body("income", QNum(6), Str(<< " ", "f" >>), DateInWeek, NotStr),
    Body("expense", QNum(4), Food, DateInFebruary, Str(<< "n", " " >>)),
    Body("expense", QNum(0), Food, DateInWeek, NotStr) }

RaceIds == { QNum(2), QNum(4), QText }

NextReadBack ==
  \/ \E i \in Writes, b \in RaceBodies : PostBegin(i, 1, b)
  \/ \E i \in Writes, id \in RaceIds, b \in RaceBodies : PutBegin(i, 1, id, b)
  \/ \E i \in Writes, id \in RaceIds : DeleteRun(i, 1, id)
  \/ \E i \in Writes : ReadBack(i)
  \/ \E i \in Writes : WriteEnd(i)

SpecReadBack == Init /\ [][NextReadBack]_vars

\* C25: every 201 response of POST /api/transactions and every 200 response
\* of PUT /api/transactions/:id carries a transaction object holding the
\* submitted type, numeric amount, trimmed category, date and note, also when
\* another request of the same user (a DELETE or PUT on the same id) runs
\* between the handler's write and its read-back query.
C25_ResponseCarriesSubmitted ==
  \A i \in Writes :
    (writes[i].pc = "done" /\ writes[i].status \in {200, 201}) =>
      LET w == writes[i]
          b == w.req.body
      IN  /\ DOMAIN w.body = {"transaction"}
          /\ w.body.transaction.type = b.type
          /\ w.body.transaction.amount = Number(b.amount).h
          /\ w.body.transaction.category = trim(b.category.s)
          /\ w.body.transaction.date = b.date
          /\ w.body.transaction.note = cleanNote(b.note)

(***************************************************************************)
(* POST and PUT with bodies that fail any combination of the checks.        *)
(***************************************************************************)
CheckBodies ==
  { Body(t, a, c, d, NotStr) :
      t \in {"income", "transfer"}, a \in {QNum(2), QNum(0)},
      c \in {Food, Str(<<>>)}, d \in {DateInWeek, DateMalformed} }

CheckIds == {QNum(2), QNum(4), QNum(3), QNum(0), QText}

NextChecks ==
  \/ (\E b \in CheckBodies : PostTransaction(1, b)) /\ Plain
  \/ /\ \E id \in CheckIds, b \in CheckBodies \cup PutBodies :
          PutTransaction(1, id, b)
     /\ Plain
  \/ Deliver /\ Plain

SpecChecks == Init /\ [][NextChecks]_vars

\* the message of the first check a POST or PUT request fails, the checks
\* taken in the order id, type, amount, category, date; "" when it fails none
FirstFailure(op, req) ==
  IF op = "put" /\ ~IsValidId(req.id) THEN "Invalid transaction id."
  ELSE IF req.body.type \notin {"income", "expense"}
    THEN "Type must be income or expense."
  ELSE IF ~isValidAmount(req.body.amount)
    THEN "Amount must be a positive number."
  ELSE IF req.body.category.k # "str" \/ Len(req.body.category.s) = 0
    THEN "Category is required."
  ELSE IF ~isValidDate(req.body.date) THEN "Date must be YYYY-MM-DD."
  ELSE ""

\* C26: a POST or PUT transaction request that fails any validation check
\* (invalid id, type, amount, category or date) is answered 400 and leaves
\* the stored transactions exactly as they were; checks run in the order id,
\* type, amount, category, date and the first failing check determines the
\* error message, with no storage call issued by the handler.
C26_FirstFailingCheck ==
  [][ (Answers /\ resp'.op \in {"post", "put"}) =>
        IF FirstFailure(resp'.op, resp'.req) # ""
        THEN /\ resp'.status = 400
             /\ resp'.body = [error |-> FirstFailure(resp'.op, resp'.req)]
             /\ resp'.sql = NoQuery
             /\ txs' = txs
             /\ nextId' = nextId
        ELSE resp'.status # 400 ]_vars

\* C26 witness: a PUT whose id and type and date all fail has been answered
\* with the message of the id check while a row is stored.
C26_Witness ==
  /\ resp.op = "put"
  /\ resp.status = 400
  /\ resp.body = [error |-> "Invalid transaction id."]
  /\ resp.req.body.type = "transfer"
  /\ resp.req.body.date = DateMalformed
  /\ txs # {}

(***************************************************************************)
(* Start-up: the promise dbReady = initDb(), the middleware chain of        *)
(* app.js (cors, express.json, await dbReady) and the standalone server,    *)
(* which listens from a callback of dbReady.  The app is also exported, so  *)
(* that a host may hand it requests without the standalone server.          *)
(***************************************************************************)
\* api: a request for a route whose handler queries the store; health:
\* GET /api/health; preflight: an OPTIONS request, which cors() answers
\* itself; badjson: a request whose JSON body does not parse, which
\* express.json() hands to the error handler
Kinds == {"api", "health", "preflight", "badjson"}

NoBoot == UNCHANGED <<txs, nextId, now, resp, flights, sessions, header,
                      issued, users, regs, writes, client>>

\* initDb() runs its statements to the end
InitDbResolve ==
  /\ boot.dbReady = "pending"
  /\ boot' = [ boot EXCEPT !.dbReady = "resolved" ]
  /\ NoBoot

\* one of the statements of initDb() throws
InitDbReject ==
  /\ boot.dbReady = "pending"
  /\ boot' = [ boot EXCEPT !.dbReady = "rejected" ]
  /\ NoBoot

\* dbReady.then(() => app.listen(PORT))
Listen ==
  /\ boot.mode = "standalone"
  /\ boot.server = "starting"
  /\ boot.dbReady = "resolved"
  /\ boot' = [ boot EXCEPT !.server = "listening" ]
  /\ NoBoot

\* .catch(() => process.exit(1))
Exit ==
  /\ boot.mode = "standalone"
  /\ boot.server = "starting"
  /\ boot.dbReady = "rejected"
  /\ boot' = [ boot EXCEPT !.server = "exited" ]
  /\ NoBoot

ReqDone(r, status, body) ==
  [ r EXCEPT !.pc = "done", !.status = status, !.body = body ]

ArriveUnguarded(i, kind) ==
  LET r == [ IdleReq EXCEPT !.kind = kind ]
  IN  /\ boot.reqs[i].pc = "idle"
      /\ boot.mode = "imported" \/ boot.server = "listening"
      /\ boot' = [ boot EXCEPT !.reqs[i] =
           IF kind = "preflight" THEN ReqDone(r, 204, <<>>)
           ELSE IF kind = "badjson"
             THEN ReqDone(r, 400, [error |-> "Bad Request"])
           ELSE [ r EXCEPT !.pc = "handler" ] ]
      /\ NoBoot

\* a request enters the chain: cors(), express.json(), then the middleware
\* of lines 12-20 awaits dbReady
Arrive(i, kind) ==
  LET r == [ IdleReq EXCEPT !.kind = kind ]
  IN  /\ boot.reqs[i].pc = "idle"
      /\ boot.mode = "imported" \/ boot.server = "listening"
      /\ boot' = [ boot EXCEPT !.reqs[i] =
           IF kind = "preflight" THEN ReqDone(r, 204, <<>>)
           ELSE IF kind = "badjson"
             THEN ReqDone(r, 400, [error |-> "Bad Request"])
           ELSE [ r EXCEPT !.pc = "awaiting" ] ]
      /\ NoBoot

\* await dbReady returns: next()
Pass(i) ==
  /\ boot.reqs[i].pc = "awaiting"
  /\ boot.dbReady = "resolved"
  /\ boot' = [ boot EXCEPT !.reqs[i].pc = "handler" ]
  /\ NoBoot

\* await dbReady throws: the catch of line 16
Unavailable(i) ==
  /\ boot.reqs[i].pc = "awaiting"
  /\ boot.dbReady = "rejected"
  /\ boot' = [ boot EXCEPT !.reqs[i] =
       ReqDone(boot.reqs[i], 500, [error |-> "Database unavailable."]) ]
  /\ NoBoot

\* the handler of the route runs: it queries the store, but for the health
\* route, and answers
Handle(i) ==
  LET r == boot.reqs[i]
  IN  /\ r.pc = "handler"
      /\ boot' = [ boot EXCEPT !.reqs[i] =
           ReqDone(r, 200,
                   IF r.kind = "health" THEN [status |-> "ok"]
                   ELSE [queried |-> boot.dbReady]) ]
      /\ NoBoot

\* the response has been written to the socket
Finish(i) ==
  /\ boot.reqs[i].pc = "done"
  /\ boot' = [ boot EXCEPT !.reqs[i] = IdleReq ]
  /\ NoBoot

InitBoot ==
  /\ txs = {}
  /\ nextId = 1
  /\ now = Today
  /\ resp = Idle
  /\ flights = NoFlights
  /\ sessions = {}
  /\ header = <<>>
  /\ issued = 0
  /\ users = {}
  /\ regs = NoRegs
  /\ writes = NoWrites
  /\ \E mode \in {"standalone", "imported"} :
       boot = [ Booted EXCEPT !.mode = mode, !.dbReady = "pending",
                              !.server = "starting" ]
  /\ client = NoClient

NextBoot ==
  \/ InitDbResolve
  \/ InitDbReject
  \/ Listen
  \/ Exit
  \/ \E i \in Reqs, kind \in Kinds : Arrive(i, kind)
  \/ \E i \in Reqs : Pass(i)
  \/ \E i \in Reqs : Unavailable(i)
  \/ \E i \in Reqs : Handle(i)
  \/ \E i \in Reqs : Finish(i)

SpecBoot == InitBoot /\ [][NextBoot]_vars

\* the event loop runs every callback that is due: the callbacks of the
\* settled promise dbReady and the handlers next() has called
SpecBootFair ==
  /\ SpecBoot
  /\ WF_vars(Listen)
  /\ WF_vars(Exit)
  /\ \A i \in Reqs : WF_vars(Pass(i))
  /\ \A i \in Reqs : WF_vars(Unavailable(i))
  /\ \A i \in Reqs : WF_vars(Handle(i))

\* no handler runs, and the standalone server does not listen, unless
\* initDb has completed; after a failed initDb the standalone server never
\* listens
InitFirst ==
  /\ \A i \in Reqs :
       boot.reqs[i].pc = "handler" => boot.dbReady = "resolved"
  /\ \A i \in Reqs :
       (boot.reqs[i].pc = "done" /\ boot.reqs[i].status = 200
          /\ boot.reqs[i].kind = "api") =>
         boot.reqs[i].body = [queried |-> "resolved"]
  /\ boot.server = "listening" => boot.dbReady = "resolved"

\* request i is answered by this step
ReqAnswers(i) == boot.reqs[i].pc # "done" /\ boot'.reqs[i].pc = "done"

\* after a failed initDb the standalone server exits, and a request that
\* waits for dbReady is answered
FailureSettles ==
  /\ (boot.dbReady = "rejected" /\ boot.mode = "standalone")
       ~> (boot.server = "exited")
  /\ \A i \in Reqs :
       (boot.reqs[i].pc = "awaiting" /\ boot.dbReady # "pending")
         ~> (boot.reqs[i].pc = "done")

\* C27 as stated: no route handler issues a storage query before database
\* initialization (initDb) has completed successfully: every request waits
\* for dbReady, the standalone server starts listening only after dbReady
\* resolves, and if initialization fails every request is answered 500
\* 'Database unavailable.' without reaching its handler while the standalone
\* server exits without ever listening.
C27_Original ==
  /\ []InitFirst
  /\ [][ \A i \in Reqs :
           (ReqAnswers(i) /\ boot.dbReady = "rejected") =>
             /\ boot'.reqs[i].status = 500
             /\ boot'.reqs[i].body = [error |-> "Database unavailable."] ]_vars
  /\ FailureSettles

\* C27, amended: as stated, but after a failed initialization it is every
\* request reaching the middleware that awaits dbReady which is answered 500
\* 'Database unavailable.'; an OPTIONS request is answered by cors() and a
\* request whose JSON body does not parse by express.json(), both of which
\* run before that middleware, and neither reaches a handler.
C27_InitBeforeHandlers ==
  /\ []InitFirst
  /\ [][ \A i \in Reqs :
           (ReqAnswers(i) /\ boot.dbReady = "rejected") =>
             IF boot.reqs[i].pc = "awaiting"
             THEN /\ boot'.reqs[i].status = 500
                  /\ boot'.reqs[i].body = [error |-> "Database unavailable."]
             ELSE /\ boot.reqs[i].pc = "idle"
                  /\ boot'.reqs[i].kind \in {"preflight", "badjson"} ]_vars
  /\ FailureSettles

\* C27 witness: initialization has failed in a host that was handed a
\* request for a route with a handler; the request waited for dbReady and
\* has been answered 500.
C27_Witness ==
  /\ boot.dbReady = "rejected"
  /\ boot.mode = "imported"
  /\ \E i \in Reqs :
       /\ boot.reqs[i].kind = "api"
       /\ boot.reqs[i].status = 500
       /\ boot.reqs[i].body = [error |-> "Database unavailable."]

(***************************************************************************)
(* GET /api/transactions over stores of up to a few hundred rows.           *)
(***************************************************************************)
\* the numbers of rows of user 1 in the stores looked at
ListSizes == {0, 3, 49, 50, 51, 199, 200, 201, 230}

\* n rows of user 1 over three dates, and one row of user 2
StoreOf(n) ==
  { NewRow(id, 1, Body("expense", QNum(2), Food, <<2024, 1 + (id % 3), 10>>,
                       NotStr)) : id \in 1..n }
  \cup { NewRow(n + 1, 2, Body("income", QNum(4), Food, DateInWeek, NotStr)) }

InitList ==
  /\ \E n \in ListSizes :
       /\ txs = StoreOf(n)
       /\ nextId = n + 2
  /\ now = Today
  /\ resp = Idle
  /\ flights = NoFlights
  /\ sessions = {}
  /\ header = <<>>
  /\ issued = 0
  /\ users = {}
  /\ regs = NoRegs
  /\ writes = NoWrites
  /\ boot = Booted
  /\ client = NoClient

\* limit: absent, 'abc', 0, 1, -1, 2.5, 50, 200, 201, 300, 1e400
Limits ==
  { QAbsent, QText, QInf, QNum(0), QNum(2), QNum(-2), QNum(5), QNum(100),
    QNum(400), QNum(402), QNum(600) }

ListStarts == { <<>>, <<2024, 2, 1>> }

NextList ==
  \/ /\ \E l \in Limits, start \in ListStarts :
          ListTransactions(1, start, <<>>, l)
     /\ Plain
  \/ Deliver /\ Plain

SpecList == InitList /\ [][NextList]_vars

NoServer == UNCHANGED <<txs, nextId, now, resp, flights, sessions, header,
                        issued, users, regs, writes, boot>>

\* loadDashboard(nextPeriod) up to its await: setIsLoading(true) and the
\* four requests are sent
StartLoad(c, i, nextPeriod) ==
  [ c EXCEPT !.isLoading = TRUE,
             !.loads[i] = [ IdleLoad EXCEPT !.pc = "pending",
                                            !.nextPeriod = nextPeriod ] ]

\* a click on Monthly or Weekly: setPeriod(p); when the period changes, the
\* effect of lines 150-155 calls loadDashboard(period); a click on the
\* selected period leaves the state as it is and runs no effect
SelectPeriod(i, p) ==
  /\ client.signedIn
  /\ client.loads[i].pc = "idle"
  /\ p # client.period
  /\ client' = StartLoad([ client EXCEPT !.period = p ], i, p)
  /\ NoServer

\* loadDashboard(period) after a transaction was saved or deleted, and when
\* the dashboard is first shown
Reload(i) ==
  /\ client.signedIn
  /\ client.loads[i].pc = "idle"
  /\ client' = StartLoad(client, i, client.period)
  /\ NoServer

\* the server answers GET /api/report?period=<nextPeriod>&count=6
ReportArrives(i) ==
  /\ client.loads[i].pc = "pending"
  /\ client' = [ client EXCEPT
       !.loads[i].pc = "arrived",
       !.loads[i].reportData =
          ResolvePeriod(PStr(client.loads[i].nextPeriod)) ]
  /\ NoServer

\* setReport(reportData)
SetReport(held, data) == [ period |-> data, loaded |-> TRUE ]

\* Promise.all resolves: lines 117-120 and the finally of line 129
LoadSettles(i) ==
  /\ client.loads[i].pc = "arrived"
  /\ client' = [ client EXCEPT
       !.report = SetReport(client.report, client.loads[i].reportData),
       !.isLoading = FALSE,
       !.loads[i] = IdleLoad ]
  /\ NoServer

InitClient ==
  /\ txs = {}
  /\ nextId = 1
  /\ now = Today
  /\ resp = Idle
  /\ flights = NoFlights
  /\ sessions = {}
  /\ header = <<>>
  /\ issued = 0
  /\ users = {}
  /\ regs = NoRegs
  /\ writes = NoWrites
  /\ boot = Booted
  /\ client = [ NoClient EXCEPT !.signedIn = TRUE ]

ClientPeriods == {"month", "week"}

NextClient ==
  \/ \E i \in Loads, p \in ClientPeriods : SelectPeriod(i, p)
  \/ \E i \in Loads : Reload(i)
  \/ \E i \in Loads : ReportArrives(i)
  \/ \E i \in Loads : LoadSettles(i)

SpecClient == InitClient /\ [][NextClient]_vars

\* C29: in the browser client, once every in-flight dashboard load has
\* settled, the report held in client state is the one for the currently
\* selected period: when the user switches period (month <-> week) while an
\* earlier load is still pending and the two responses arrive in either
\* order, the displayed report.period equals the selected period.
C29_ReportOfSelectedPeriod ==
  ( /\ \A i \in Loads : client.loads[i].pc = "idle"
    /\ client.report.loaded ) =>
      client.report.period = client.period

\* C30: within one report the bucket labels are pairwise distinct for every
\* resolved count in [2,24] and every today, in month mode ('Mon YY') and in
\* week mode ('Mon DD'), so that the chart, which keys its rows by label,
\* never renders two buckets under the same key.
C30_LabelsDistinct ==
  IsReport =>
    \A i, j \in 1..Len(resp.body.buckets) :
      i # j => resp.body.buckets[i].label # resp.body.buckets[j].label

\* C30 witness: a month report of 24 buckets, in which a month name comes
\* twice, told apart by the year; the week reports of 24 buckets are reached
\* in the same run.
C30_Witness ==
  /\ IsReport
  /\ resp.body.period = "month"
  /\ Len(resp.body.buckets) = 24
  /\ \E i, j \in 1..24 :
       /\ i # j
       /\ resp.body.buckets[i].label[1] = resp.body.buckets[j].label[1]
       /\ resp.body.buckets[i].label[2] # resp.body.buckets[j].label[2]

====
